---------------------------- MODULE Spec2Model ----------------------------
(***************************************************************************)
(* A model of glyphsLib's builder (Lib/glyphsLib/builder/ufo.py): the      *)
(* conversion of a Glyphs source font into one UFO per master.             *)
(*                                                                         *)
(* Strings the code takes apart (kerning keys, filter strings, anchor      *)
(* names) are sequences of atoms; an atom is a run of characters the code  *)
(* never looks into.  Python's None is the string None_ where the value is *)
(* a string and the empty sequence where it is a number (<<w>> is the      *)
(* number w).                                                              *)
(***************************************************************************)
EXTENDS Integers, Sequences, FiniteSets, TLC

VARIABLES
    \* draw_paths: the paths argument, the index of the next path, the
    \* calls received by the pen, and where the call stands
    d_paths, d_i, pen, d_pc,
    \* load_glyph: its arguments (the target glyph as passed in, the layer,
    \* the glyph data), the target glyph, and where the call stands
    g_in, ufo_glyph, g_pc,
    \* build_gdef: the target font's glyphs, the index of the next glyph,
    \* the four collections of line 880, and where the call stands
    gd_glyphs, gd_i, bases, ligatures, marks, carets, gd_pc,
    \* parse_glyphs_filter as called by set_custom_params: the segments the
    \* filter string is made of, the string, the parser's result with the
    \* number of errors logged, the filters stored in the target font's lib,
    \* and where the call stands
    f_segs, filter_str, f_result, f_lib, f_pc,
    \* load_kerning: the target font's groups, the kerning table given, the
    \* target font's pair table, the mixed rules collected, the rules seen,
    \* the warnings logged, the index of the next left key, the number of
    \* mixed rules still to check, and where the call stands
    k_groups, kerning_data, k_kerning, class_glyph_pairs, seen, k_log, k_i, k_j, k_pc,
    \* to_ufos: the source font as passed in; the list objects that are
    \* reached through more than one name (the value of the glyphOrder
    \* custom parameter, the list made at line 103); the locals ufos,
    \* master_id_order, glyph_order (a reference to a list object),
    \* sorted_glyphset, kerning_groups and supplementary_layer_data; the
    \* index of the next master, glyph, layer and queued layer; the target
    \* fonts the post pass and the masters the kerning loop have
    \* visited; the value returned; the calls made on the target fonts, in
    \* order; and where the call stands
    font, heap, ufos, master_id_order, glyph_order, sorted_glyphset, kerning_groups,
    supplementary_layer_data, master_i, glyph_i, layer_j, supp_i, post_done,
    kern_done, returned, trace, pc,
    \* to_ufos, the instances: the source font's family name and instances;
    \* the arguments family_name and include_instances; the locals
    \* family_name, do_filter_instances_by_family, instance_family_name and
    \* instances; the index of the next instance the filter looks at; the
    \* instance data returned; and where the call stands
    i_font, i_args, family_name, do_filter_instances_by_family, instance_family_name,
    instances, i_i, instance_data, i_pc,
    \* build_style_name and build_stylemap_names: the function called with
    \* its arguments, the value it returned, and where the call stands
    s_call, s_value, s_pc

drawVars == <<d_paths, d_i, pen, d_pc>>
glyphVars == <<g_in, ufo_glyph, g_pc>>
gdefVars == <<gd_glyphs, gd_i, bases, ligatures, marks, carets, gd_pc>>
filterVars == <<f_segs, filter_str, f_result, f_lib, f_pc>>
kernVars == <<k_groups, kerning_data, k_kerning, class_glyph_pairs, seen, k_log,
              k_i, k_j, k_pc>>
ufosVars == <<font, heap, ufos, master_id_order, glyph_order, sorted_glyphset,
              kerning_groups, supplementary_layer_data, master_i, glyph_i, layer_j,
              supp_i, post_done, kern_done, returned, trace, pc>>
instVars == <<i_font, i_args, family_name, do_filter_instances_by_family,
              instance_family_name, instances, i_i, instance_data, i_pc>>
styleVars == <<s_call, s_value, s_pc>>
vars == <<drawVars, glyphVars, gdefVars, filterVars, kernVars, ufosVars, instVars,
          styleVars>>

\* What each operation leaves alone: the state of the other operations
notDraw == <<glyphVars, gdefVars, filterVars, kernVars, ufosVars,
    instVars, styleVars>>
notGlyph == <<drawVars, gdefVars, filterVars, kernVars, ufosVars,
    instVars, styleVars>>
notGdef == <<drawVars, glyphVars, filterVars, kernVars, ufosVars,
    instVars, styleVars>>
notFilter == <<drawVars, glyphVars, gdefVars, kernVars, ufosVars,
    instVars, styleVars>>
notKern == <<drawVars, glyphVars, gdefVars, filterVars, ufosVars,
    instVars, styleVars>>
notUfos == <<drawVars, glyphVars, gdefVars, filterVars, kernVars, instVars, styleVars>>
notInst == <<drawVars, glyphVars, gdefVars, filterVars, kernVars, ufosVars, styleVars>>
notStyle == <<drawVars, glyphVars, gdefVars, filterVars, kernVars, ufosVars, instVars>>

None_ == "None"

\* ------------------------------------------------------------------------
\* Sequence helpers
\* ------------------------------------------------------------------------
Range(s) == {s[i] : i \in 1..Len(s)}

Front(s) == SubSeq(s, 1, Len(s) - 1)

Last(s) == s[Len(s)]

\* All sequences over S of length at most n
RECURSIVE SeqsUpTo(_, _)
SeqsUpTo(S, n) ==
    IF n = 0 THEN {<<>>}
    ELSE LET shorter == SeqsUpTo(S, n - 1)
         IN  shorter \cup {Append(s, x) : s \in {t \in shorter : Len(t) = n - 1}, x \in S}

\* ------------------------------------------------------------------------
\* draw_paths (ufo.py 813-836)
\* ------------------------------------------------------------------------
MaxNodes == 3

NodeTypes == {"line", "curve", "qcurve", "offcurve"}

\* A source node; its position stands for the (x, y) pair and is the node's
\* index in the stored list, so that every node of a path is told apart.
Node(i, t, s) == [position |-> <<i, 0>>, type |-> t, smooth |-> s]

NodeLists ==
    {[i \in 1..Len(ts) |-> Node(i, ts[i][1], ts[i][2])] :
        ts \in SeqsUpTo(NodeTypes \X BOOLEAN, MaxNodes)}

Paths == [nodes : NodeLists, closed : BOOLEAN]

BeginPath == [op |-> "beginPath"]
EndPath == [op |-> "endPath"]
AddPoint(position, segmentType, smooth) ==
    [op |-> "addPoint", pt |-> position, segmentType |-> segmentType,
     smooth |-> smooth]

\* lines 832-834: every type but line, curve and qcurve is passed as None
SegmentType(node_type) ==
    IF node_type \in {"line", "curve", "qcurve"} THEN node_type ELSE None_

\* A draw_paths that leaves a closed path's nodes in their stored order
RotateLastToFront_Unrotated(nodes) == nodes

\* line 830: nodes.insert(0, nodes.pop())
RotateLastToFront(nodes) == <<Last(nodes)>> \o Front(nodes)

\* lines 831-835
EmitNodes(nodes) ==
    [i \in 1..Len(nodes) |->
        AddPoint(nodes[i].position, SegmentType(nodes[i].type), nodes[i].smooth)]

\* An assertion that never fails
OpenPathAssertion_Never(node) == TRUE

\* lines 824-826: the assertion on the first node of an open path
OpenPathAssertion(node) == node.type = "line"

\* One iteration of the loop over paths: the pen calls it makes and whether
\* the assertion of line 825 failed (the calls made before it are kept).
DrawPath(path) ==
    LET nodes == path.nodes
    IN  IF nodes = <<>>
        THEN [calls |-> <<BeginPath, EndPath>>, raised |-> FALSE]
        ELSE IF ~path.closed
             THEN IF ~OpenPathAssertion(Head(nodes))
                  THEN [calls |-> <<BeginPath>>, raised |-> TRUE]
                  ELSE [calls |-> <<BeginPath,
                                    AddPoint(Head(nodes).position, "move", FALSE)>>
                                  \o EmitNodes(Tail(nodes)) \o <<EndPath>>,
                        raised |-> FALSE]
             ELSE [calls |-> <<BeginPath>> \o EmitNodes(RotateLastToFront(nodes))
                             \o <<EndPath>>,
                   raised |-> FALSE]

\* The whole of draw_paths: the loop stops at the first failed assertion.
RECURSIVE DrawPaths(_)
DrawPaths(paths) ==
    IF paths = <<>> THEN [calls |-> <<>>, raised |-> FALSE]
    ELSE LET first == DrawPath(Head(paths))
         IN  IF first.raised THEN first
             ELSE LET rest == DrawPaths(Tail(paths))
                  IN  [calls |-> first.calls \o rest.calls, raised |-> rest.raised]

\* Paths drawn after a first one in the path lists of SpecDraw
TailPaths ==
    {[nodes |-> <<>>, closed |-> TRUE],
     [nodes |-> <<Node(1, "offcurve", FALSE), Node(2, "curve", TRUE)>>, closed |-> TRUE],
     [nodes |-> <<Node(1, "curve", FALSE)>>, closed |-> FALSE]}

DrawIdle == d_paths = <<>> /\ d_i = 0 /\ pen = <<>> /\ d_pc = "idle"

GlyphIdle == g_in = <<>> /\ ufo_glyph = <<>> /\ g_pc = "idle"

GdefIdle ==
    /\ gd_glyphs = <<>> /\ gd_i = 0 /\ gd_pc = "idle"
    /\ bases = {} /\ ligatures = {} /\ marks = {} /\ carets = <<>>

FilterIdle ==
    /\ f_segs = <<>> /\ filter_str = <<>> /\ f_result = <<>> /\ f_lib = <<>>
    /\ f_pc = "idle"

KernIdle ==
    /\ k_groups = <<>> /\ kerning_data = <<>> /\ k_kerning = <<>>
    /\ class_glyph_pairs = <<>> /\ seen = <<>> /\ k_log = <<>>
    /\ k_i = 0 /\ k_j = 0 /\ k_pc = "idle"

UfosIdle ==
    /\ font = <<>> /\ heap = <<>> /\ ufos = <<>> /\ master_id_order = <<>>
    /\ glyph_order = None_ /\ sorted_glyphset = {} /\ kerning_groups = <<>>
    /\ supplementary_layer_data = <<>>
    /\ master_i = 0 /\ glyph_i = 0 /\ layer_j = 0 /\ supp_i = 0
    /\ post_done = {} /\ kern_done = {} /\ returned = <<>> /\ trace = <<>>
    /\ pc = "idle"

InstIdle ==
    /\ i_font = <<>> /\ i_args = <<>> /\ family_name = None_
    /\ do_filter_instances_by_family = FALSE /\ instance_family_name = None_
    /\ instances = <<>> /\ i_i = 0 /\ instance_data = <<>> /\ i_pc = "idle"

StyleIdle == s_call = <<>> /\ s_value = <<>> /\ s_pc = "idle"

InitDraw ==
    /\ GlyphIdle /\ GdefIdle /\ FilterIdle /\ KernIdle /\ UfosIdle
    /\ InstIdle /\ StyleIdle
    /\ d_paths \in {<<>>} \cup {<<p>> : p \in Paths}
                   \cup {<<p, q>> : p \in Paths, q \in TailPaths}
    /\ d_i = 1
    /\ pen = <<>>
    /\ d_pc = "draw"

\* One iteration of `for path in paths`
DrawNextPath ==
    /\ d_pc = "draw"
    /\ d_i <= Len(d_paths)
    /\ LET r == DrawPath(d_paths[d_i])
       IN  /\ pen' = pen \o r.calls
           /\ d_pc' = IF r.raised THEN "raised" ELSE "draw"
    /\ d_i' = d_i + 1
    /\ UNCHANGED <<d_paths, notDraw>>

\* The loop is over: draw_paths returns
DrawReturn ==
    /\ d_pc = "draw"
    /\ d_i > Len(d_paths)
    /\ d_pc' = "returned"
    /\ UNCHANGED <<d_paths, d_i, pen, notDraw>>

NextDraw == DrawNextPath \/ DrawReturn

SpecDraw == InitDraw /\ [][NextDraw]_vars

\* The contours the pen has received: the points between each beginPath and
\* its endPath, and whether the endPath has come
RECURSIVE Contours(_)
Contours(calls) ==
    IF calls = <<>> THEN <<>>
    ELSE LET c == Last(calls)
             before == Contours(Front(calls))
         IN  IF c.op = "beginPath"
             THEN Append(before, [points |-> <<>>, ended |-> FALSE])
             ELSE IF c.op = "addPoint"
                  THEN [before EXCEPT ![Len(before)].points = Append(@, c)]
                  ELSE [before EXCEPT ![Len(before)].ended = TRUE]

\* C6: a closed path with nodes n1..nk draws as exactly k points between
\* beginPath and endPath, in the order nk, n1, ..., n(k-1), each with its
\* position and smooth flag, its type kept when it is line, curve or qcurve
\* and None otherwise; a path with no nodes draws as an empty contour.
C6_ClosedPathStartsAtLastNode ==
    \A j \in 1..(d_i - 1) :
        LET path == d_paths[j]
            k == Len(path.nodes)
            cs == Contours(pen)
        IN  (path.closed \/ k = 0) =>
                /\ j <= Len(cs)
                /\ cs[j].ended
                /\ Len(cs[j].points) = k
                /\ \A i \in 1..k :
                      LET n == path.nodes[IF i = 1 THEN k ELSE i - 1]
                          p == cs[j].points[i]
                      IN  /\ p.pt = n.position
                          /\ p.smooth = n.smooth
                          /\ p.segmentType =
                                CASE n.type = "line" -> "line"
                                  [] n.type = "curve" -> "curve"
                                  [] n.type = "qcurve" -> "qcurve"
                                  [] OTHER -> None_

\* The closed path [A(line), B(curve), C(offcurve)] has been drawn as C, A, B
C6_Witness ==
    /\ d_pc = "returned"
    /\ Len(d_paths) = 1
    /\ d_paths[1].closed
    /\ Len(d_paths[1].nodes) = 3
    /\ d_paths[1].nodes[1].type = "line"
    /\ d_paths[1].nodes[2].type = "curve"
    /\ d_paths[1].nodes[3].type = "offcurve"
    /\ Len(pen) = 5
    /\ pen[2].pt = <<3, 0>> /\ pen[2].segmentType = None_
    /\ pen[3].pt = <<1, 0>> /\ pen[3].segmentType = "line"
    /\ pen[4].pt = <<2, 0>> /\ pen[4].segmentType = "curve"

\* ------------------------------------------------------------------------
\* Glyph data, anchors
\* ------------------------------------------------------------------------
\* glyphsLib.glyphdata.get_glyph(name): the library's category and
\* subcategory of a glyph name (None for a name it does not know)
GlyphInfo(name) ==
    CASE name = "acutecomb" -> [category |-> "Mark", subCategory |-> "Nonspacing"]
      [] name = "f_i" -> [category |-> "Letter", subCategory |-> "Ligature"]
      [] name = "unknown" -> [category |-> None_, subCategory |-> None_]
      [] OTHER -> [category |-> "Letter", subCategory |-> "Lowercase"]

\* str.startswith on a name made of atoms, for a one-atom prefix
StartsWith(name, prefix) == name # <<>> /\ Head(name) = prefix

Anchor(name, x) == [name |-> name, x |-> x, y |-> 0]

\* lines 850-853
AddAnchorsToGlyph(glyph_anchors, anchors) ==
    glyph_anchors \o [i \in 1..Len(anchors) |->
                        [name |-> anchors[i].name, x |-> anchors[i].x,
                         y |-> anchors[i].y]]

\* ------------------------------------------------------------------------
\* load_glyph (ufo.py 745-810): category, subcategory, width, outline,
\* anchors.  The target glyph's lib holds the three entries modelled:
\* the category and subCategory overrides and originalWidth.
\* ------------------------------------------------------------------------
EmptyLib == [category |-> None_, subCategory |-> None_, originalWidth |-> <<>>]

\* defcon's newGlyph: an empty glyph of width 0
NewGlyph(name) ==
    [name |-> name, width |-> 0, lib |-> EmptyLib, pen |-> <<>>, anchors |-> <<>>]

\* lines 783-785 and 788-790: the override if there is one, else the library's
ResolveCategory(override, library) == IF override = None_ THEN library ELSE override

\* A width rule that zeroes a nonspacing mark whatever its width
ZeroesWidth_AnyWidth(category, subCategory, width) ==
    category = "Mark" /\ subCategory = "Nonspacing"

\* line 798: the condition under which the width is zeroed
ZeroesWidth(category, subCategory, width) ==
    category = "Mark" /\ subCategory = "Nonspacing" /\ width > 0

\* load_glyph: the target glyph after the call, and whether draw_paths raised.
\* The width is set (lines 795-804) before the outline is drawn (line 808),
\* and the anchors are added last (line 810).
LoadGlyph(glyph, layer, glyph_data) ==
    LET glyphinfo == GlyphInfo(glyph.name)
        category == ResolveCategory(glyph_data.category, glyphinfo.category)
        subCategory == ResolveCategory(glyph_data.subCategory, glyphinfo.subCategory)
        zero == layer.width # <<>> /\ ZeroesWidth(category, subCategory, layer.width[1])
        drawn == DrawPaths(layer.paths)
        g1 == [glyph EXCEPT
                 !.lib.category = IF glyph_data.category = None_ THEN @
                                  ELSE glyph_data.category,
                 !.lib.subCategory = IF glyph_data.subCategory = None_ THEN @
                                     ELSE glyph_data.subCategory,
                 !.lib.originalWidth = IF zero THEN layer.width ELSE @,
                 !.width = IF layer.width = <<>> THEN @
                           ELSE IF zero THEN 0 ELSE layer.width[1],
                 !.pen = @ \o drawn.calls]
    IN  [glyph |-> IF drawn.raised THEN g1
                   ELSE [g1 EXCEPT !.anchors = AddAnchorsToGlyph(@, layer.anchors)],
         raised |-> drawn.raised]

OpenLinePath == [nodes |-> <<Node(1, "line", FALSE), Node(2, "line", FALSE)>>,
                 closed |-> FALSE]
OpenOffcurvePath == [nodes |-> <<Node(1, "offcurve", FALSE), Node(2, "curve", FALSE)>>,
                     closed |-> FALSE]
ClosedPath == [nodes |-> <<Node(1, "line", FALSE), Node(2, "line", TRUE),
                           Node(3, "line", FALSE)>>,
               closed |-> TRUE]

TopAnchor == Anchor(<<"top">>, 10)

GlyphDataNames == {"a", "acutecomb", "f_i", "unknown"}
Widths == {<<>>, <<-10>>, <<0>>, <<120>>}

InitGlyph ==
    /\ DrawIdle /\ GdefIdle /\ FilterIdle /\ KernIdle /\ UfosIdle
    /\ InstIdle /\ StyleIdle
    /\ g_in \in [name : GlyphDataNames,
                 width0 : {0, 600},
                 layer : [width : Widths,
                          paths : {<<>>, <<ClosedPath, OpenOffcurvePath>>},
                          anchors : {<<>>, <<TopAnchor>>}],
                 glyph_data : [category : {None_, "Mark", "Letter"},
                               subCategory : {None_, "Nonspacing", "Spacing Combining"}]]
    /\ ufo_glyph = [NewGlyph(g_in.name) EXCEPT !.width = g_in.width0]
    /\ g_pc = "call"

\* load_glyph(ufo_glyph, layer, glyph_data)
LoadGlyphCall ==
    /\ g_pc = "call"
    /\ LET r == LoadGlyph(ufo_glyph, g_in.layer, g_in.glyph_data)
       IN  /\ ufo_glyph' = r.glyph
           /\ g_pc' = IF r.raised THEN "raised" ELSE "returned"
    /\ UNCHANGED <<g_in, notGlyph>>

NextGlyph == LoadGlyphCall

SpecGlyph == InitGlyph /\ [][NextGlyph]_vars

\* C8: with the category and subcategory resolved (the glyph's override,
\* else the library's), a layer of width w > 0 of a Mark/Nonspacing glyph
\* gives width 0 and originalWidth w; any other category or subcategory, or
\* w <= 0, gives width w and no originalWidth; no width leaves the target
\* glyph's width as it was.
C8_WidthRule ==
    g_pc \in {"returned", "raised"} =>
        LET info == GlyphInfo(g_in.name)
            cat == IF g_in.glyph_data.category # None_
                   THEN g_in.glyph_data.category ELSE info.category
            sub == IF g_in.glyph_data.subCategory # None_
                   THEN g_in.glyph_data.subCategory ELSE info.subCategory
            w == g_in.layer.width
        IN  IF w = <<>>
            THEN ufo_glyph.width = g_in.width0 /\ ufo_glyph.lib.originalWidth = <<>>
            ELSE IF cat = "Mark" /\ sub = "Nonspacing" /\ w[1] > 0
                 THEN ufo_glyph.width = 0 /\ ufo_glyph.lib.originalWidth = w
                 ELSE ufo_glyph.width = w[1] /\ ufo_glyph.lib.originalWidth = <<>>

\* A nonspacing mark by the library's data, of width 120, has been loaded
C8_Witness ==
    /\ g_pc = "returned"
    /\ g_in.name = "acutecomb"
    /\ g_in.glyph_data.category = None_ /\ g_in.glyph_data.subCategory = None_
    /\ g_in.layer.width = <<120>>
    /\ ufo_glyph.width = 0
    /\ ufo_glyph.lib.originalWidth = <<120>>

\* ------------------------------------------------------------------------
\* build_gdef (ufo.py 878-941): the glyph classes and the ligature carets.
\* The text of the table is not modelled, only what it lists.
\* ------------------------------------------------------------------------
MaxGdefGlyphs == 2

\* lines 884-888: an anchor with a name that does not start with "_"
HasAttachingAnchor(anchors) ==
    \E i \in 1..Len(anchors) :
        anchors[i].name # <<>> /\ ~StartsWith(anchors[i].name, "_")

\* lines 889-890: the x of every anchor named caret_*, in anchor order
CaretPositions(anchors) ==
    LET F[i \in 0..Len(anchors)] ==
            IF i = 0 THEN <<>>
            ELSE IF anchors[i].name # <<>> /\ StartsWith(anchors[i].name, "caret_")
                 THEN Append(F[i - 1], anchors[i].x)
                 ELSE F[i - 1]
    IN  F[Len(anchors)]

\* A classification that tests for Base before Mark
ClassifyGlyph_BaseBeforeMark(glyph) ==
    LET has_attaching_anchor == HasAttachingAnchor(glyph.anchors)
        glyphinfo == GlyphInfo(glyph.name)
        category == ResolveCategory(glyph.lib.category, glyphinfo.category)
        subCategory == ResolveCategory(glyph.lib.subCategory, glyphinfo.subCategory)
    IN  IF subCategory = "Ligature" /\ has_attaching_anchor THEN "Ligature"
        ELSE IF has_attaching_anchor THEN "Base"
        ELSE IF category = "Mark" /\ (subCategory = "Nonspacing" \/
                                       subCategory = "Spacing Combining")
             THEN "Mark"
        ELSE None_

\* lines 891-924: the class of one glyph, None when it gets none
ClassifyGlyph(glyph) ==
    LET has_attaching_anchor == HasAttachingAnchor(glyph.anchors)
        glyphinfo == GlyphInfo(glyph.name)
        category == ResolveCategory(glyph.lib.category, glyphinfo.category)
        subCategory == ResolveCategory(glyph.lib.subCategory, glyphinfo.subCategory)
    IN  IF subCategory = "Ligature" /\ has_attaching_anchor THEN "Ligature"
        ELSE IF category = "Mark" /\ (subCategory = "Nonspacing" \/
                                       subCategory = "Spacing Combining")
             THEN "Mark"
        ELSE IF has_attaching_anchor THEN "Base"
        ELSE None_

\* carets.setdefault(name, []).append(x) for every x of xs
AddCarets(crts, name, xs) ==
    IF xs = <<>> THEN crts
    ELSE [n \in DOMAIN crts \cup {name} |->
            IF n = name
            THEN (IF n \in DOMAIN crts THEN crts[n] ELSE <<>>) \o xs
            ELSE crts[n]]

\* The whole loop of lines 883-924 over the glyphs gs, from the collections c
RECURSIVE GdefClasses(_, _)
GdefClasses(gs, c) ==
    IF gs = <<>> THEN c
    ELSE LET g == Head(gs)
             class == ClassifyGlyph(g)
         IN  GdefClasses(Tail(gs),
                 [bases |-> IF class = "Base" THEN c.bases \cup {g.name} ELSE c.bases,
                  ligatures |-> IF class = "Ligature" THEN c.ligatures \cup {g.name}
                                ELSE c.ligatures,
                  marks |-> IF class = "Mark" THEN c.marks \cup {g.name} ELSE c.marks,
                  carets |-> AddCarets(c.carets, g.name, CaretPositions(g.anchors))])

NoClasses == [bases |-> {}, ligatures |-> {}, marks |-> {}, carets |-> <<>>]

\* line 925: no table when nothing was collected
GdefIsNone(c) ==
    c.bases = {} /\ c.ligatures = {} /\ c.marks = {} /\ DOMAIN c.carets = {}

GdefNames == {"a", "acutecomb", "f_i"}

AnchorLists ==
    {<<>>, <<TopAnchor>>,
     <<Anchor(<<"_", "top">>, 10), Anchor(<<>>, 20)>>,
     <<Anchor(<<"caret_", "1">>, 30), Anchor(<<"_", "top">>, 10)>>}

\* The category and subCategory overrides a target glyph's lib may hold
LibOverrides ==
    {[category |-> c[1], subCategory |-> c[2], originalWidth |-> <<>>] :
        c \in {<<None_, None_>>, <<"Mark", None_>>, <<None_, "Ligature">>,
               <<"Mark", "Ligature">>, <<"Mark", "Spacing Combining">>,
               <<"Letter", None_>>}}

GdefGlyphs ==
    [name : GdefNames, width : {0}, pen : {<<>>}, anchors : AnchorLists,
     lib : LibOverrides]

InitGdef ==
    /\ DrawIdle /\ GlyphIdle /\ FilterIdle /\ KernIdle /\ UfosIdle
    /\ InstIdle /\ StyleIdle
    /\ gd_glyphs \in {gs \in SeqsUpTo(GdefGlyphs, MaxGdefGlyphs) :
                        \A i, j \in 1..Len(gs) : gs[i].name = gs[j].name => i = j}
    /\ gd_i = 1
    /\ bases = {} /\ ligatures = {} /\ marks = {} /\ carets = <<>>
    /\ gd_pc = "loop"

\* One iteration of `for glyph in ufo`
GdefGlyph ==
    /\ gd_pc = "loop"
    /\ gd_i <= Len(gd_glyphs)
    /\ LET c == GdefClasses(<<gd_glyphs[gd_i]>>,
                            [bases |-> bases, ligatures |-> ligatures,
                             marks |-> marks, carets |-> carets])
       IN  /\ bases' = c.bases
           /\ ligatures' = c.ligatures
           /\ marks' = c.marks
           /\ carets' = c.carets
    /\ gd_i' = gd_i + 1
    /\ UNCHANGED <<gd_glyphs, gd_pc, notGdef>>

\* lines 925-941: None, or the table
GdefReturn ==
    /\ gd_pc = "loop"
    /\ gd_i > Len(gd_glyphs)
    /\ gd_pc' = IF GdefIsNone([bases |-> bases, ligatures |-> ligatures,
                               marks |-> marks, carets |-> carets])
                THEN "returned None" ELSE "returned table"
    /\ UNCHANGED <<gd_glyphs, gd_i, bases, ligatures, marks, carets, notGdef>>

NextGdef == GdefGlyph \/ GdefReturn

SpecGdef == InitGdef /\ [][NextGdef]_vars

\* C9: every glyph is in at most one of Ligature, Mark and Base.  A glyph of
\* subcategory Ligature with an attaching anchor (a named anchor whose name
\* does not start with "_") is Ligature, whatever its category; a glyph of
\* category Mark and subcategory Nonspacing or Spacing Combining that is not
\* Ligature is Mark; a glyph with an attaching anchor that is neither is Base;
\* any other glyph is in no class.
C9_GdefClassPrecedence ==
    /\ bases \cap ligatures = {} /\ bases \cap marks = {} /\ ligatures \cap marks = {}
    /\ \A j \in 1..Len(gd_glyphs) :
         LET g == gd_glyphs[j]
             done == j < gd_i
             info == GlyphInfo(g.name)
             cat == IF g.lib.category # None_ THEN g.lib.category ELSE info.category
             sub == IF g.lib.subCategory # None_ THEN g.lib.subCategory
                    ELSE info.subCategory
             attaching == \E i \in 1..Len(g.anchors) :
                             /\ g.anchors[i].name # <<>>
                             /\ g.anchors[i].name[1] # "_"
             lig == sub = "Ligature" /\ attaching
             mark == ~lig /\ cat = "Mark" /\ sub \in {"Nonspacing", "Spacing Combining"}
             base == ~lig /\ ~mark /\ attaching
         IN  /\ g.name \in ligatures <=> (done /\ lig)
             /\ g.name \in marks <=> (done /\ mark)
             /\ g.name \in bases <=> (done /\ base)

\* A glyph of category Mark and subcategory Ligature with an attaching anchor
\* is Ligature, and a nonspacing mark with an attaching anchor is Mark
C9_Witness ==
    /\ gd_pc = "returned table"
    /\ \E i, j \in 1..Len(gd_glyphs) :
         /\ gd_glyphs[i].lib.category = "Mark"
         /\ gd_glyphs[i].lib.subCategory = "Ligature"
         /\ gd_glyphs[i].anchors = <<TopAnchor>>
         /\ gd_glyphs[i].name \in ligatures
         /\ gd_glyphs[j].name = "acutecomb"
         /\ gd_glyphs[j].lib.subCategory = None_
         /\ gd_glyphs[j].anchors = <<TopAnchor>>
         /\ gd_glyphs[j].name \in marks

\* ------------------------------------------------------------------------
\* parse_glyphs_filter (ufo.py 432-476) and its caller (ufo.py 417-423).
\* A filter string is a sequence of atoms: the delimiters ";", ":", "," and
\* " ", and words without a delimiter in them.
\* ------------------------------------------------------------------------
MaxSegments == 3

\* str.split(sep): the pieces between the occurrences of the atom sep
Split(str, sep) ==
    LET F[i \in 0..Len(str)] ==
            IF i = 0 THEN [done |-> <<>>, cur |-> <<>>]
            ELSE LET prev == F[i - 1]
                 IN  IF str[i] = sep
                     THEN [done |-> Append(prev.done, prev.cur), cur |-> <<>>]
                     ELSE [done |-> prev.done, cur |-> Append(prev.cur, str[i])]
    IN  Append(F[Len(str)].done, F[Len(str)].cur)

\* sep.join(pieces)
RECURSIVE Join(_, _)
Join(pieces, sep) ==
    IF pieces = <<>> THEN <<>>
    ELSE IF Len(pieces) = 1 THEN pieces[1]
    ELSE pieces[1] \o <<sep>> \o Join(Tail(pieces), sep)

\* elem.split(':', 1): what is before the first ":" and what is after it
SplitOnce(elem) ==
    LET n == CHOOSE k \in 1..Len(elem) :
                 elem[k] = ":" /\ \A m \in 1..(k - 1) : elem[m] # ":"
    IN  [key |-> SubSeq(elem, 1, n - 1), value |-> SubSeq(elem, n + 1, Len(elem))]

\* re.split('[ ,]+', value): a run of spaces and commas separates two names
ReSplit(value) ==
    LET F[i \in 0..Len(value)] ==
            IF i = 0 THEN [done |-> <<>>, cur |-> <<>>, sep |-> FALSE]
            ELSE LET prev == F[i - 1]
                 IN  IF value[i] \in {" ", ","}
                     THEN IF prev.sep THEN prev
                          ELSE [done |-> Append(prev.done, prev.cur),
                                cur |-> <<>>, sep |-> TRUE]
                     ELSE [done |-> prev.done, cur |-> Append(prev.cur, value[i]),
                           sep |-> FALSE]
    IN  Append(F[Len(value)].done, F[Len(value)].cur)

\* str.lower(), on the words whose case the parser looks at
LowerAtom(a) ==
    CASE a = "Include" -> "include"
      [] a = "Exclude" -> "exclude"
      [] OTHER -> a

Lower(word) == [i \in 1..Len(word) |-> LowerAtom(word[i])]

\* glyphsLib.util.cast_to_number_or_bool: a number or a boolean when the
\* text reads as one, else the text
CastToNumberOrBool(word) ==
    IF Len(word) = 1 /\ word[1] \in {"10", "5"} THEN <<"number", word[1]>>
    ELSE IF Len(word) = 1 /\ Lower(word)[1] \in {"true", "false"}
         THEN <<"bool", Lower(word)[1]>>
    ELSE <<"str", word>>

\* dict[key] = value
Put(dict, key, value) ==
    [k \in DOMAIN dict \cup {key} |-> IF k = key THEN value ELSE dict[k]]

\* A parser that takes include and exclude wherever they stand
IsLastArgument_Anywhere(idx, elements) == TRUE

\* line 464, negated: the argument at idx (from 0) of elements[1:] is the last
IsLastArgument(idx, elements) == idx = Len(Tail(elements)) - 1

\* The result dict: args, kwargs, include and exclude are absent until set
\* (<<>>; include and exclude hold <<list>> once set), none is the None
\* returned for a missing name, errors counts the errors logged.
EmptyFilter(name) ==
    [none |-> FALSE, name |-> name, args |-> <<>>, kwargs |-> <<>>,
     include |-> <<>>, exclude |-> <<>>, errors |-> 0]

ParseGlyphsFilter(str) ==
    LET elements == Split(str, ";")
        args == Tail(elements)
        F[i \in 0..Len(args)] ==
            IF i = 0 THEN EmptyFilter(elements[1])
            ELSE LET result == F[i - 1]
                     elem == args[i]
                 IN  IF elem = <<>> THEN result
                     ELSE IF ":" \in Range(elem)
                     THEN LET key == SplitOnce(elem).key
                              value == SplitOnce(elem).value
                          IN  IF Lower(key) \in {<<"include">>, <<"exclude">>}
                              THEN IF ~IsLastArgument(i - 1, elements)
                                   THEN [result EXCEPT !.errors = @ + 1]
                                   ELSE IF Lower(key) = <<"include">>
                                   THEN [result EXCEPT !.include = <<ReSplit(value)>>]
                                   ELSE [result EXCEPT !.exclude = <<ReSplit(value)>>]
                              ELSE [result EXCEPT
                                      !.kwargs = Put(@, key, CastToNumberOrBool(value))]
                     ELSE [result EXCEPT !.args = Append(@, CastToNumberOrBool(elem))]
    IN  IF elements[1] = <<>>
        THEN [EmptyFilter(<<>>) EXCEPT !.none = TRUE, !.errors = 1]
        ELSE F[Len(args)]

\* The segments filter strings are made of
Segments ==
    {<<>>,
     <<"transformations">>,
     <<"10">>,
     <<"OffsetX", ":", "10">>,
     <<"OffsetX", ":", "a", ":", "b">>,
     <<"include", ":", "a", ",", "b", " ", "c">>,
     <<"Exclude", ":", "a", ",", " ", "b">>,
     <<"include", ":">>}

\* "transformations;OffsetX:10;OffsetY:5;include:a,b c"
Example1 ==
    <<<<"transformations">>, <<"OffsetX", ":", "10">>, <<"OffsetY", ":", "5">>,
      <<"include", ":", "a", ",", "b", " ", "c">>>>

\* "transformations;include:a;OffsetX:10"
Example2 ==
    <<<<"transformations">>, <<"include", ":", "a">>, <<"OffsetX", ":", "10">>>>

InitFilter ==
    /\ DrawIdle /\ GlyphIdle /\ GdefIdle /\ KernIdle /\ UfosIdle
    /\ InstIdle /\ StyleIdle
    /\ f_segs \in (SeqsUpTo(Segments, MaxSegments) \ {<<>>}) \cup {Example1, Example2}
    /\ filter_str = Join(f_segs, ";")
    /\ f_result = <<>>
    /\ f_lib = <<>>
    /\ f_pc = "call"

\* lines 417-423: the filter is parsed and, unless there is none, stored
ParseFilter ==
    /\ f_pc = "call"
    /\ f_result' = ParseGlyphsFilter(filter_str)
    /\ f_lib' = IF f_result'.none THEN f_lib
                ELSE Append(f_lib, [f_result' EXCEPT !.errors = 0])
    /\ f_pc' = "returned"
    /\ UNCHANGED <<f_segs, filter_str, notFilter>>

NextFilter == ParseFilter

SpecFilter == InitFilter /\ [][NextFilter]_vars

\* C10: an empty first segment logs an error and gives no result.  Otherwise
\* the first segment is the name, the later bare tokens are the args in
\* order, every key:value token is in kwargs (the last one of a key wins),
\* include and exclude are taken only from the final segment, their value
\* split on spaces and commas, and a non-final include or exclude is logged
\* and ignored while the other tokens are still parsed.  The two examples
\* of the specification parse as it says.
C10_FilterParse ==
    f_pc = "returned" =>
        LET n == Len(f_segs)
            HasColon(e) == \E k \in 1..Len(e) : e[k] = ":"
            \* e is key:value, split at its first colon
            IsKeyValue(e, key, value) ==
                \E k \in 1..Len(e) :
                    /\ e[k] = ":"
                    /\ \A m \in 1..(k - 1) : e[m] # ":"
                    /\ key = SubSeq(e, 1, k - 1)
                    /\ value = SubSeq(e, k + 1, Len(e))
            KeyOf(e) == CHOOSE key \in {SubSeq(e, 1, k) : k \in 0..Len(e)} :
                            \E value \in {SubSeq(e, k, Len(e)) : k \in 1..(Len(e) + 1)} :
                                IsKeyValue(e, key, value)
            ValueOf(e) == CHOOSE value \in {SubSeq(e, k, Len(e)) : k \in 1..(Len(e) + 1)} :
                              IsKeyValue(e, KeyOf(e), value)
            Listing(e) == HasColon(e) /\ Lower(KeyOf(e)) \in {<<"include">>, <<"exclude">>}
            bare == SelectSeq(Tail(f_segs), LAMBDA e : e # <<>> /\ ~HasColon(e))
            keyed == {i \in 2..n : HasColon(f_segs[i]) /\ ~Listing(f_segs[i])}
            TakenFrom(word) ==
                IF n >= 2 /\ Listing(f_segs[n]) /\ Lower(KeyOf(f_segs[n])) = <<word>>
                THEN <<ReSplit(ValueOf(f_segs[n]))>>
                ELSE <<>>
        IN  /\ f_segs[1] = <<>> =>
                /\ f_result.none
                /\ f_result.errors = 1
                /\ f_lib = <<>>
            /\ f_segs[1] # <<>> =>
                /\ ~f_result.none
                /\ f_result.name = f_segs[1]
                /\ f_result.args = [i \in 1..Len(bare) |-> CastToNumberOrBool(bare[i])]
                /\ DOMAIN f_result.kwargs = {KeyOf(f_segs[i]) : i \in keyed}
                /\ \A i \in keyed :
                     (\A j \in keyed : j > i => KeyOf(f_segs[j]) # KeyOf(f_segs[i]))
                        => f_result.kwargs[KeyOf(f_segs[i])]
                             = CastToNumberOrBool(ValueOf(f_segs[i]))
                /\ f_result.include = TakenFrom("include")
                /\ f_result.exclude = TakenFrom("exclude")
                /\ f_result.errors = Cardinality({i \in 2..(n - 1) : Listing(f_segs[i])})
                /\ Len(f_lib) = 1
                /\ f_lib[1].name = f_result.name
                /\ f_lib[1].include = f_result.include
            /\ f_segs = Example1 =>
                /\ f_result.name = <<"transformations">>
                /\ f_result.args = <<>>
                /\ DOMAIN f_result.kwargs = {<<"OffsetX">>, <<"OffsetY">>}
                /\ f_result.kwargs[<<"OffsetX">>] = <<"number", "10">>
                /\ f_result.kwargs[<<"OffsetY">>] = <<"number", "5">>
                /\ f_result.include = <<<< <<"a">>, <<"b">>, <<"c">> >>>>
                /\ f_result.exclude = <<>>
                /\ f_result.errors = 0
            /\ f_segs = Example2 =>
                /\ f_result.name = <<"transformations">>
                /\ f_result.args = <<>>
                /\ DOMAIN f_result.kwargs = {<<"OffsetX">>}
                /\ f_result.kwargs[<<"OffsetX">>] = <<"number", "10">>
                /\ f_result.include = <<>>
                /\ f_result.exclude = <<>>
                /\ f_result.errors = 1

\* A string with a non-final include has been parsed: the include is
\* ignored with one error, and the bare token after it is still in args
C10_Witness ==
    /\ f_pc = "returned"
    /\ f_segs = << <<"transformations">>,
                   <<"include", ":", "a", ",", "b", " ", "c">>, <<"10">> >>
    /\ filter_str = <<"transformations", ";", "include", ":", "a", ",", "b", " ", "c",
                      ";", "10">>
    /\ f_result.include = <<>>
    /\ f_result.errors = 1
    /\ f_result.args = << <<"number", "10">> >>

\* ------------------------------------------------------------------------
\* load_kerning (ufo.py 610-642) and remove_rule_if_conflict (645-674).
\* A kerning key is a sequence of atoms: <<"a">> is the glyph a,
\* <<"@MMK_L_", "A">> the left class A; a group name is
\* <<"public.kern1.", "A">>.  The kerning table is the list of its left keys
\* in order, each with the list of its (right key, value) pairs.
\* ------------------------------------------------------------------------
MaxKernEntries == 3

\* lines 617-620 and 625-628: re.match(r'@MMK_L_(.+)', key)
MatchesClass(key, prefix) == Len(key) >= 2 /\ key[1] = prefix

\* 'public.kern1.%s' % match.group(1)
GroupName(key, prefix) == <<prefix>> \o Tail(key)

\* del dict[key]
Del(dict, key) == [k \in DOMAIN dict \ {key} |-> dict[k]]

\* dict.get(key): <<>> stands for None
Get(dict, key) == IF key \in DOMAIN dict THEN <<dict[key]>> ELSE <<>>

MissingWarning(group) == [kind |-> "missing", group |-> group]

\* existing_rule is what seen.get(pair) gave: <<rule>>
ConflictWarning(pair, existing_rule, rule) ==
    [kind |-> "conflict", pair |-> pair, existing |-> existing_rule, rule |-> rule]

\* lines 624-638: the inner loop over the pairs of one left key, from the
\* state st = [kerning, pairs, log]
LoadPairs(st, groups, left, left_is_class, pairs) ==
    LET F[i \in 0..Len(pairs)] ==
            IF i = 0 THEN st
            ELSE LET prev == F[i - 1]
                     right_is_class == MatchesClass(pairs[i][1], "@MMK_R_")
                     right == IF right_is_class
                              THEN GroupName(pairs[i][1], "public.kern2.")
                              ELSE pairs[i][1]
                     kerning_val == pairs[i][2]
                 IN  IF right_is_class /\ right \notin DOMAIN groups
                     THEN [prev EXCEPT !.log = Append(@, MissingWarning(right))]
                     ELSE [kerning |-> Put(prev.kerning, <<left, right>>, kerning_val),
                           pairs |-> IF left_is_class # right_is_class
                                     THEN Append(prev.pairs,
                                              IF left_is_class
                                              THEN <<left, right, TRUE>>
                                              ELSE <<right, left, FALSE>>)
                                     ELSE prev.pairs,
                           log |-> prev.log]
    IN  F[Len(pairs)]

\* A loop that does not look for the left class among the groups
LoadLeft_NoGroupCheck(st, groups, entry) ==
    LET left_is_class == MatchesClass(entry.left, "@MMK_L_")
        left == IF left_is_class THEN GroupName(entry.left, "public.kern1.")
                ELSE entry.left
    IN  LoadPairs(st, groups, left, left_is_class, entry.pairs)

\* lines 616-638: one iteration of the loop over the left keys
LoadLeft(st, groups, entry) ==
    LET left_is_class == MatchesClass(entry.left, "@MMK_L_")
        left == IF left_is_class THEN GroupName(entry.left, "public.kern1.")
                ELSE entry.left
    IN  IF left_is_class /\ left \notin DOMAIN groups
        THEN [st EXCEPT !.log = Append(@, MissingWarning(left))]
        ELSE LoadPairs(st, groups, left, left_is_class, entry.pairs)

\* A conflict test that also counts an explicit pair of another value
IsConflict_ExplicitPair(existing_rule, val, pair, kerning) ==
    \/ existing_rule # <<>> /\ existing_rule[1][3] # val /\ pair \notin DOMAIN kerning
    \/ pair \in DOMAIN kerning /\ kerning[pair] # val

\* A conflict test that finds no conflict
IsConflict_Never(existing_rule, val, pair, kerning) == FALSE

\* A conflict test that does not compare the values
IsConflict_AnyValue(existing_rule, val, pair, kerning) ==
    existing_rule # <<>> /\ pair \notin DOMAIN kerning

\* lines 659-661; existing_rule is seen.get(pair)
IsConflict(existing_rule, val, pair, kerning) ==
    /\ existing_rule # <<>>
    /\ existing_rule[1][3] # val
    /\ pair \notin DOMAIN kerning

\* lines 650-674, from the state st = [kerning, seen, log]
RemoveRuleIfConflict(st, groups, classname, glyph, is_left_class) ==
    LET original_pair == IF is_left_class THEN <<classname, glyph>>
                         ELSE <<glyph, classname>>
        val == st.kerning[original_pair]
        rule == <<original_pair[1], original_pair[2], val>>
        old_glyphs == groups[classname]
        PairOf(member) == IF is_left_class THEN <<member, glyph>> ELSE <<glyph, member>>
        \* lines 656-668: the members kept, the rules seen, the warnings
        F[i \in 0..Len(old_glyphs)] ==
            IF i = 0 THEN [new_glyphs |-> <<>>, seen |-> st.seen, log |-> st.log]
            ELSE LET prev == F[i - 1]
                     pair == PairOf(old_glyphs[i])
                     existing_rule == Get(prev.seen, pair)
                 IN  IF IsConflict(existing_rule, val, pair, st.kerning)
                     THEN [prev EXCEPT
                             !.log = Append(@, ConflictWarning(pair, existing_rule, rule))]
                     ELSE [prev EXCEPT !.new_glyphs = Append(@, old_glyphs[i]),
                                       !.seen = Put(@, pair, rule)]
        after == F[Len(old_glyphs)]
        \* lines 672-674: the literal pairs of the members kept
        G[i \in 0..Len(after.new_glyphs)] ==
            IF i = 0 THEN Del(st.kerning, original_pair)
            ELSE Put(G[i - 1], PairOf(after.new_glyphs[i]), val)
    IN  [kerning |-> IF after.new_glyphs # old_glyphs
                     THEN G[Len(after.new_glyphs)] ELSE st.kerning,
         seen |-> after.seen,
         log |-> after.log]

\* The whole of load_kerning: the pair table and the warnings it ends with
LoadKerning(groups, data) ==
    LET L[i \in 0..Len(data)] ==
            IF i = 0 THEN [kerning |-> <<>>, pairs |-> <<>>, log |-> <<>>]
            ELSE LoadLeft(L[i - 1], groups, data[i])
        loaded == L[Len(data)]
        n == Len(loaded.pairs)
        \* reversed(class_glyph_pairs)
        C[i \in 0..n] ==
            IF i = 0 THEN [kerning |-> loaded.kerning, seen |-> <<>>, log |-> loaded.log]
            ELSE LET p == loaded.pairs[n + 1 - i]
                 IN  RemoveRuleIfConflict(C[i - 1], groups, p[1], p[2], p[3])
    IN  [kerning |-> C[n].kerning, log |-> C[n].log]

\* The source keys and values of the tables checked
LeftKeys == {<<"@MMK_L_", "A">>, <<"a">>, <<"aa">>}
RightKeys == {<<"@MMK_R_", "X">>, <<"x">>}
KernValues == {10, 20}

\* The groups add_groups_to_ufo may have stored: each glyph in at most one
\* group a side, the members in the source's glyph order
GroupsOf(a, b) ==
    [g \in (IF a = <<>> THEN {} ELSE {<<"public.kern1.", "A">>})
           \cup (IF b = <<>> THEN {} ELSE {<<"public.kern2.", "X">>})
        |-> IF g[1] = "public.kern1." THEN a ELSE b]

KernGroups ==
    {GroupsOf(a, b) :
        a \in {<<>>, << <<"a">> >>, << <<"aa">> >>, << <<"a">>, <<"aa">> >>},
        b \in {<<>>, << <<"x">> >>}}

\* The flat entry lists: no key twice, the entries of a left key together
FlatTables ==
    {t \in SeqsUpTo(LeftKeys \X RightKeys \X KernValues, MaxKernEntries) :
        /\ \A i, j \in 1..Len(t) : (t[i][1] = t[j][1] /\ t[i][2] = t[j][2]) => i = j
        /\ \A i, j \in 1..Len(t) :
             (i < j /\ t[i][1] = t[j][1]) => \A m \in i..j : t[m][1] = t[i][1]}

\* The nested table of a flat entry list
RECURSIVE Nested(_)
Nested(t) ==
    IF t = <<>> THEN <<>>
    ELSE LET before == Nested(Front(t))
             e == Last(t)
         IN  IF before # <<>> /\ Last(before).left = e[1]
             THEN [before EXCEPT ![Len(before)].pairs = Append(@, <<e[2], e[3]>>)]
             ELSE Append(before, [left |-> e[1], pairs |-> << <<e[2], e[3]>> >>])

InitKern ==
    /\ DrawIdle /\ GlyphIdle /\ GdefIdle /\ FilterIdle /\ UfosIdle
    /\ InstIdle /\ StyleIdle
    /\ k_groups \in KernGroups
    /\ kerning_data \in {Nested(t) : t \in FlatTables}
    /\ k_kerning = <<>>
    /\ class_glyph_pairs = <<>>
    /\ seen = <<>>
    /\ k_log = <<>>
    /\ k_i = 1
    /\ k_j = 0
    /\ k_pc = "load"

\* One iteration of `for left, pairs in kerning_data.items()`
LoadKerningLeft ==
    /\ k_pc = "load"
    /\ k_i <= Len(kerning_data)
    /\ LET st == LoadLeft([kerning |-> k_kerning, pairs |-> class_glyph_pairs,
                           log |-> k_log], k_groups, kerning_data[k_i])
       IN  /\ k_kerning' = st.kerning
           /\ class_glyph_pairs' = st.pairs
           /\ k_log' = st.log
    /\ k_i' = k_i + 1
    /\ UNCHANGED <<k_groups, kerning_data, seen, k_j, k_pc, notKern>>

\* lines 640-641: the table is loaded, the conflict pass starts
StartConflictPass ==
    /\ k_pc = "load"
    /\ k_i > Len(kerning_data)
    /\ seen' = <<>>
    /\ k_j' = Len(class_glyph_pairs)
    /\ k_pc' = "conflicts"
    /\ UNCHANGED <<k_groups, kerning_data, k_kerning, class_glyph_pairs, k_log, k_i,
                   notKern>>

\* One iteration of `for ... in reversed(class_glyph_pairs)`
ConflictStep ==
    /\ k_pc = "conflicts"
    /\ k_j >= 1
    /\ LET p == class_glyph_pairs[k_j]
           st == RemoveRuleIfConflict([kerning |-> k_kerning, seen |-> seen,
                                       log |-> k_log], k_groups, p[1], p[2], p[3])
       IN  /\ k_kerning' = st.kerning
           /\ seen' = st.seen
           /\ k_log' = st.log
    /\ k_j' = k_j - 1
    /\ UNCHANGED <<k_groups, kerning_data, class_glyph_pairs, k_i, k_pc, notKern>>

\* load_kerning returns
KerningReturn ==
    /\ k_pc = "conflicts"
    /\ k_j = 0
    /\ k_pc' = "done"
    /\ UNCHANGED <<k_groups, kerning_data, k_kerning, class_glyph_pairs, seen, k_log,
                   k_i, k_j, notKern>>

NextKern == LoadKerningLeft \/ StartConflictPass \/ ConflictStep \/ KerningReturn

SpecKern == InitKern /\ [][NextKern]_vars

\* The entries (left key, right key, value) of the first n left keys
RECURSIVE Entries(_, _)
Entries(data, n) ==
    IF n = 0 THEN {}
    ELSE Entries(data, n - 1) \cup
         {<<data[n].left, data[n].pairs[m][1], data[n].pairs[m][2]>> :
             m \in 1..Len(data[n].pairs)}

Logged(w) == \E i \in 1..Len(k_log) : k_log[i] = w

\* C5: an entry whose left key @MMK_L_<s> or right key @MMK_R_<s> names a
\* group public.kern1.<s> or public.kern2.<s> that the target font does not
\* have gives no pair and a warning about that group, and the loop goes on;
\* every other entry is in the pair table under its rewritten key with its
\* value, and the pair table holds nothing else.
C5_MissingGroupSkipped ==
    (k_pc = "load" \/ (k_pc = "conflicts" /\ k_j = Len(class_glyph_pairs))) =>
        LET done == Entries(kerning_data, k_i - 1)
            LeftOf(e) == IF e[1][1] = "@MMK_L_" THEN <<"public.kern1.", e[1][2]>>
                         ELSE e[1]
            RightOf(e) == IF e[2][1] = "@MMK_R_" THEN <<"public.kern2.", e[2][2]>>
                          ELSE e[2]
            LeftMissing(e) == e[1][1] = "@MMK_L_" /\ LeftOf(e) \notin DOMAIN k_groups
            RightMissing(e) == e[2][1] = "@MMK_R_" /\ RightOf(e) \notin DOMAIN k_groups
            written == {e \in done : ~LeftMissing(e) /\ ~RightMissing(e)}
        IN  /\ \A e \in done :
                 /\ LeftMissing(e) =>
                      /\ <<LeftOf(e), RightOf(e)>> \notin DOMAIN k_kerning
                      /\ Logged(MissingWarning(LeftOf(e)))
                 /\ (~LeftMissing(e) /\ RightMissing(e)) =>
                      /\ <<LeftOf(e), RightOf(e)>> \notin DOMAIN k_kerning
                      /\ Logged(MissingWarning(RightOf(e)))
            /\ \A e \in written :
                 /\ <<LeftOf(e), RightOf(e)>> \in DOMAIN k_kerning
                 /\ k_kerning[<<LeftOf(e), RightOf(e)>>] = e[3]
            /\ DOMAIN k_kerning = {<<LeftOf(e), RightOf(e)>> : e \in written}
            /\ (k_pc = "conflicts") => k_i = Len(kerning_data) + 1

\* A table with an entry of a missing right class between two entries that
\* are written has been loaded
C5_Witness ==
    /\ k_pc = "conflicts" /\ k_j = Len(class_glyph_pairs)
    /\ DOMAIN k_groups = {<<"public.kern1.", "A">>}
    /\ Len(kerning_data) = 2
    /\ kerning_data[1] = [left |-> <<"a">>,
                          pairs |-> << <<<<"@MMK_R_", "X">>, 10>>, <<<<"x">>, 20>> >>]
    /\ kerning_data[2] = [left |-> <<"@MMK_L_", "A">>, pairs |-> << <<<<"x">>, 10>> >>]
    /\ k_log = <<MissingWarning(<<"public.kern2.", "X">>)>>
    /\ DOMAIN k_kerning = {<< <<"a">>, <<"x">> >>, << <<"public.kern1.", "A">>, <<"x">> >>}

\* The example of the specification: public.kern1.A = [a, aa], the class
\* rule (@MMK_L_A, x) = 10 and the glyph rule (aa, x) = 20
KernExample ==
    /\ <<"public.kern1.", "A">> \in DOMAIN k_groups
    /\ k_groups[<<"public.kern1.", "A">>] = << <<"a">>, <<"aa">> >>
    /\ Entries(kerning_data, Len(kerning_data))
         = {<< <<"@MMK_L_", "A">>, <<"x">>, 10 >>, << <<"aa">>, <<"x">>, 20 >>}

\* C3 as stated: on the example load_kerning ends with the pairs
\* {(a, x): 10, (aa, x): 20}, no class-level (public.kern1.A, x) entry, and
\* a warning about the conflicting pair.
C3_AsStated ==
    (k_pc = "done" /\ KernExample) =>
        /\ DOMAIN k_kerning = {<< <<"a">>, <<"x">> >>, << <<"aa">>, <<"x">> >>}
        /\ k_kerning[<< <<"a">>, <<"x">> >>] = 10
        /\ k_kerning[<< <<"aa">>, <<"x">> >>] = 20
        /\ \E i \in 1..Len(k_log) : k_log[i].kind = "conflict"

\* C3 amended: on the example load_kerning ends with the pairs
\* {(public.kern1.A, x): 10, (aa, x): 20}: the class-level entry stays, the
\* explicit pair (aa, x) keeps 20, and no warning is logged.
C3_ExampleKeepsClassRule ==
    (k_pc = "done" /\ KernExample) =>
        /\ DOMAIN k_kerning = {<< <<"public.kern1.", "A">>, <<"x">> >>,
                               << <<"aa">>, <<"x">> >>}
        /\ k_kerning[<< <<"public.kern1.", "A">>, <<"x">> >>] = 10
        /\ k_kerning[<< <<"aa">>, <<"x">> >>] = 20
        /\ k_log = <<>>

\* load_kerning has returned on the example, the class rule checked
C3_Witness ==
    /\ k_pc = "done"
    /\ KernExample
    /\ class_glyph_pairs = << << <<"public.kern1.", "A">>, <<"x">>, TRUE >> >>
    /\ << <<"aa">>, <<"x">> >> \in DOMAIN seen

\* C4: every (glyph, glyph) entry of the kerning table is in the pair table
\* with its value once the table is loaded, through the conflict pass and
\* after it.
C4_ExplicitPairsKept ==
    (k_pc = "done" \/ (k_pc = "conflicts")) =>
        \A e \in Entries(kerning_data, Len(kerning_data)) :
            (e[1][1] # "@MMK_L_" /\ e[2][1] # "@MMK_R_") =>
                /\ <<e[1], e[2]>> \in DOMAIN k_kerning
                /\ k_kerning[<<e[1], e[2]>>] = e[3]

\* ------------------------------------------------------------------------
\* to_ufos (ufo.py 44-168) with generate_base_fonts (171-278), called with
\* the default arguments.  A target font is a record of its lib (the
\* fontMasterID and public.glyphOrder entries), its layers (a dict of
\* dicts of glyphs, the default layer being public.default), its groups and
\* its kerning.  A lib entry that holds a list holds a reference to a list
\* object of the heap; an absent entry is <<>>.
\* ------------------------------------------------------------------------
MaxMasters == 2
MaxGlyphs == 3

MasterIdPool == <<"m1", "m2", "m3">>
GlyphNamePool == <<"a", "b", "c", "d">>

MasterIds == {MasterIdPool[i] : i \in 1..MaxMasters}
GlyphNames == {GlyphNamePool[i] : i \in 1..MaxGlyphs}

\* The sequences over S of length at most n in which nothing stands twice
DistinctSeqsUpTo(S, n) ==
    {s \in SeqsUpTo(S, n) : \A i, j \in 1..Len(s) : s[i] = s[j] => i = j}

DefaultLayer == "public.default"

\* A layer of a source glyph
Layer(layerId, associatedMasterId, name, paths) ==
    [layerId |-> layerId, associatedMasterId |-> associatedMasterId, name |-> name,
     width |-> <<120>>, paths |-> paths, anchors |-> <<>>]

\* The layers of a source glyph: one master layer for each master, in the
\* masters' order, and the other layers the kind of glyph has
SourceLayers(kind, masters) ==
    LET n == Len(masters)
        MasterLayers(paths, last_paths) ==
            [i \in 1..n |-> Layer(masters[i], masters[i], "Regular",
                                  IF i = n THEN last_paths ELSE paths)]
    IN  IF n = 0 THEN <<>>
        ELSE CASE kind = "plain" ->
                    MasterLayers(<<OpenLinePath>>, <<OpenLinePath>>)
               [] kind = "background" ->
                    MasterLayers(<<ClosedPath>>, <<ClosedPath>>)
                    \o <<Layer("x1", masters[1], "bg", <<OpenLinePath>>)>>
               [] kind = "unnamed" ->
                    <<Layer("x1", masters[1], None_, <<OpenOffcurvePath>>)>>
                    \o MasterLayers(<<OpenLinePath>>, <<OpenLinePath>>)
               [] kind = "badmaster" ->
                    MasterLayers(<<OpenLinePath>>, <<ClosedPath, OpenOffcurvePath>>)
               [] kind = "badbackground" ->
                    MasterLayers(<<OpenLinePath>>, <<OpenLinePath>>)
                    \o <<Layer("x1", masters[n], "bg", <<OpenOffcurvePath>>)>>

GlyphKinds == {"plain", "background", "unnamed", "badmaster", "badbackground"}

\* A source glyph: its name, its kerning group tags and its layers
SourceGlyph(name, kind, masters) ==
    [name |-> name, category |-> None_, subCategory |-> None_,
     rightKerningGroup |-> CASE kind \in {"background", "unnamed"} -> "A"
                             [] kind = "plain" -> ""
                             [] OTHER -> None_,
     leftKerningGroup |-> CASE kind \in {"plain", "unnamed", "badmaster"} -> "X"
                            [] OTHER -> None_,
     layers |-> SourceLayers(kind, masters)]

\* The values of the glyphOrder custom parameter: absent, or a list
GlyphOrderParams == {<<>>, << <<"b", "a">> >>, << <<"c", "z">> >>}

\* A kerning table of a master
MasterKerning ==
    Nested(<< << <<"@MMK_L_", "A">>, <<"b">>, 10 >>,
              << <<"@MMK_L_", "B">>, <<"b">>, 10 >>,
              << <<"a">>, <<"b">>, 20 >> >>)

\* A source font: its masters, its glyphOrder custom parameter, its glyphs
\* (the names are unique) and its kerning (no table if there is no
\* kerning, else one for every master)
SourceFont(ids, order, names, kinds, kerned) ==
    [masters |-> [i \in 1..Len(ids) |-> [id |-> ids[i]]],
     glyphOrder |-> order,
     glyphs |-> [i \in 1..Len(names) |-> SourceGlyph(names[i], kinds[i], ids)],
     kerning |-> IF kerned THEN [m \in Range(ids) |-> MasterKerning] ELSE <<>>]

\* generate_base_fonts, lines 196-276: the target font of a master.  The
\* font-level glyphOrder parameter is stored in the lib by the
\* set_custom_params call of line 265 (lines 414-416), the value itself and
\* not a copy of it; fontMasterID is set last (line 274).
NewFont(master_id, glyphOrder) ==
    [lib |-> [fontMasterID |-> master_id,
              glyphOrder |-> IF glyphOrder = <<>> THEN <<>> ELSE <<"param">>],
     layers |-> [l \in {DefaultLayer} |-> <<>>],
     groups |-> <<>>,
     kerning |-> <<>>]

\* A glyph order to which every glyph name is appended
AppendsToOrder_Always(glyph_name, glyphset) == TRUE

\* line 109
AppendsToOrder(glyph_name, glyphset) == glyph_name \notin glyphset

\* Groups in which the two sides change places
AddGlyphToGroups_SidesSwapped(groups, glyph_data) ==
    LET AddSide(gs, prefix, group) ==
            IF group = None_ \/ group = "" THEN gs
            ELSE LET key == <<prefix, group>>
                     members == IF key \in DOMAIN gs THEN gs[key] ELSE <<>>
                 IN  Put(gs, key, Append(members, glyph_data.name))
    IN  AddSide(AddSide(groups, "public.kern1.", glyph_data.leftKerningGroup),
                "public.kern2.", glyph_data.rightKerningGroup)

\* add_glyph_to_groups, lines 859-868
AddGlyphToGroups(groups, glyph_data) ==
    LET AddSide(gs, prefix, group) ==
            IF group = None_ \/ group = "" THEN gs
            ELSE LET key == <<prefix, group>>
                     members == IF key \in DOMAIN gs THEN gs[key] ELSE <<>>
                 IN  Put(gs, key, Append(members, glyph_data.name))
    IN  AddSide(AddSide(groups, "public.kern1.", glyph_data.rightKerningGroup),
                "public.kern2.", glyph_data.leftKerningGroup)

\* add_groups_to_ufo, lines 874-875
AddGroupsToUfo(groups, new_groups) ==
    [k \in DOMAIN groups \cup DOMAIN new_groups |->
        IF k \in DOMAIN new_groups THEN new_groups[k] ELSE groups[k]]

\* The groups as load_kerning reads them: each glyph name as the atoms of
\* a kerning key
KerningNames(groups) ==
    [g \in DOMAIN groups |-> [i \in 1..Len(groups[g]) |-> <<groups[g][i]>>]]

\* A result in the reverse of the masters' order
Result_Reversed(fonts, order) ==
    [i \in 1..Len(order) |-> fonts[order[Len(order) + 1 - i]]]

\* line 150
Result(fonts, order) == [i \in 1..Len(order) |-> fonts[order[i]]]

\* A dispatch that queues the unnamed layers too
QueuesLayer_Unnamed(layer) == TRUE

\* line 122: a layer that is not a master's own is queued if it has a name
QueuesLayer(layer) == layer.name # None_

\* A call made on a target font
Event(op, master_id, layer_name, glyph_name) ==
    [op |-> op, font |-> master_id, layer |-> layer_name, glyph |-> glyph_name]

\* A post pass that assembles the features first
PostEvents_FeaturesFirst(master_id) ==
    <<Event("features", master_id, None_, None_),
      Event("glyphOrder", master_id, None_, None_),
      Event("anchors", master_id, None_, None_),
      Event("groups", master_id, None_, None_)>>

\* lines 142-145: what the post pass does to one target font, in order
PostEvents(master_id) ==
    <<Event("glyphOrder", master_id, None_, None_),
      Event("anchors", master_id, None_, None_),
      Event("features", master_id, None_, None_),
      Event("groups", master_id, None_, None_)>>

\* ufo.newLayer(name) if the layer is not there, then newGlyph and
\* load_glyph in that layer (lines 127-129 and 133-139): the target font
\* after the call and whether load_glyph raised.  The glyph is in the layer
\* before load_glyph runs and stays there when it raises.
LoadLayerGlyph(ufo, layer_name, glyph_name, layer, glyph_data) ==
    LET layers == IF layer_name \in DOMAIN ufo.layers THEN ufo.layers
                  ELSE Put(ufo.layers, layer_name, <<>>)
        loaded == LoadGlyph(NewGlyph(glyph_name), layer, glyph_data)
    IN  [ufo |-> [ufo EXCEPT !.layers =
                    [layers EXCEPT ![layer_name] = Put(@, glyph_name, loaded.glyph)]],
         raised |-> loaded.raised]

InitUfos ==
    /\ DrawIdle /\ GlyphIdle /\ GdefIdle /\ FilterIdle /\ KernIdle
    /\ InstIdle /\ StyleIdle
    /\ \E ids \in DistinctSeqsUpTo(MasterIds, MaxMasters),
          order \in GlyphOrderParams,
          names \in DistinctSeqsUpTo(GlyphNames, MaxGlyphs),
          kerned \in BOOLEAN :
          \E kinds \in [1..Len(names) -> GlyphKinds] :
              font = SourceFont(ids, order, names, kinds, kerned)
    /\ heap = IF font.glyphOrder = <<>> THEN <<>>
              ELSE [o \in {"param"} |-> font.glyphOrder[1]]
    /\ ufos = <<>>
    /\ master_id_order = <<>>
    /\ glyph_order = None_
    /\ sorted_glyphset = {}
    /\ kerning_groups = <<>>
    /\ supplementary_layer_data = <<>>
    /\ master_i = 1 /\ glyph_i = 1 /\ layer_j = 0 /\ supp_i = 1
    /\ post_done = {}
    /\ kern_done = {}
    /\ returned = <<>>
    /\ trace = <<>>
    /\ pc = "base"

\* generate_base_fonts: one iteration of `for master in font.masters`
GenerateBaseFont ==
    /\ pc = "base"
    /\ master_i <= Len(font.masters)
    /\ LET master_id == font.masters[master_i].id
       IN  /\ ufos' = Put(ufos, master_id, NewFont(master_id, font.glyphOrder))
           /\ master_id_order' = Append(master_id_order, master_id)
    /\ master_i' = master_i + 1
    /\ UNCHANGED <<font, heap, glyph_order, sorted_glyphset, kerning_groups,
                   supplementary_layer_data, glyph_i, layer_j, supp_i, post_done,
                   kern_done, returned, trace, pc, notUfos>>

\* lines 94-104: generate_base_fonts has returned; the glyph order to start
\* from is the list in the first target font's lib, or a new empty list.
\* With no master, master_id_order[0] raises.
ReadGlyphOrder ==
    /\ pc = "base"
    /\ master_i > Len(font.masters)
    /\ IF master_id_order = <<>>
       THEN /\ pc' = "aborted"
            /\ UNCHANGED <<heap, glyph_order, sorted_glyphset>>
       ELSE LET first_ufo == ufos[master_id_order[1]]
                listed == first_ufo.lib.glyphOrder # <<>>
                order == IF listed THEN first_ufo.lib.glyphOrder[1] ELSE "fresh"
                objects == IF listed THEN heap ELSE Put(heap, "fresh", <<>>)
            IN  /\ glyph_order' = order
                /\ heap' = objects
                /\ sorted_glyphset' = Range(objects[order])
                /\ pc' = "passes"
    /\ UNCHANGED <<font, ufos, master_id_order, kerning_groups,
                   supplementary_layer_data, master_i, glyph_i, layer_j, supp_i,
                   post_done, kern_done, returned, trace, notUfos>>

\* lines 106-113: the head of one iteration of `for glyph in font.glyphs`
BeginGlyph ==
    /\ pc = "passes"
    /\ glyph_i <= Len(font.glyphs)
    /\ layer_j = 0
    /\ LET glyph == font.glyphs[glyph_i]
       IN  /\ kerning_groups' = AddGlyphToGroups(kerning_groups, glyph)
           /\ heap' = IF AppendsToOrder(glyph.name, sorted_glyphset)
                      THEN [heap EXCEPT ![glyph_order] = Append(@, glyph.name)]
                      ELSE heap
           /\ IF glyph.layers = <<>>
              THEN glyph_i' = glyph_i + 1 /\ layer_j' = 0
              ELSE glyph_i' = glyph_i /\ layer_j' = 1
    /\ UNCHANGED <<font, ufos, master_id_order, glyph_order, sorted_glyphset,
                   supplementary_layer_data, master_i, supp_i, post_done, kern_done,
                   returned, trace, pc, notUfos>>

\* lines 116-129: one iteration of `for layer in glyph.layers.values()`
DispatchLayer ==
    /\ pc = "passes"
    /\ glyph_i <= Len(font.glyphs)
    /\ layer_j >= 1
    /\ LET glyph == font.glyphs[glyph_i]
           layer == glyph.layers[layer_j]
           layer_id == layer.layerId
           assoc_id == layer.associatedMasterId
       IN  /\ IF layer_j = Len(glyph.layers)
              THEN glyph_i' = glyph_i + 1 /\ layer_j' = 0
              ELSE glyph_i' = glyph_i /\ layer_j' = layer_j + 1
           /\ IF assoc_id # layer_id
              THEN /\ supplementary_layer_data' =
                        IF QueuesLayer(layer)
                        THEN Append(supplementary_layer_data,
                                    [layer_id |-> assoc_id, glyph_name |-> glyph.name,
                                     layer_name |-> layer.name, layer_data |-> layer,
                                     parent |-> glyph])
                        ELSE supplementary_layer_data
                   /\ UNCHANGED <<ufos, trace, pc>>
              ELSE IF layer_id \notin DOMAIN ufos
                   THEN /\ pc' = "aborted"
                        /\ UNCHANGED <<ufos, trace, supplementary_layer_data>>
                   ELSE LET r == LoadLayerGlyph(ufos[layer_id], DefaultLayer,
                                                glyph.name, layer, glyph)
                        IN  /\ ufos' = [ufos EXCEPT ![layer_id] = r.ufo]
                            /\ trace' = Append(trace, Event("newGlyph", layer_id,
                                                            DefaultLayer, glyph.name))
                            /\ pc' = IF r.raised THEN "aborted" ELSE pc
                            /\ UNCHANGED supplementary_layer_data
    /\ UNCHANGED <<font, heap, master_id_order, glyph_order, sorted_glyphset,
                   kerning_groups, master_i, supp_i, post_done, kern_done, returned,
                   notUfos>>

\* lines 131-139: one iteration of the loop over supplementary_layer_data
SupplementaryLayer ==
    /\ pc = "passes"
    /\ glyph_i > Len(font.glyphs)
    /\ supp_i <= Len(supplementary_layer_data)
    /\ LET item == supplementary_layer_data[supp_i]
       IN  IF item.layer_id \notin DOMAIN ufos
           THEN pc' = "aborted" /\ UNCHANGED <<ufos, trace>>
           ELSE LET ufo_font == ufos[item.layer_id]
                    r == LoadLayerGlyph(ufo_font, item.layer_name, item.glyph_name,
                                        item.layer_data, item.parent)
                    made == IF item.layer_name \in DOMAIN ufo_font.layers THEN <<>>
                            ELSE <<Event("newLayer", item.layer_id, item.layer_name,
                                         None_)>>
                IN  /\ ufos' = [ufos EXCEPT ![item.layer_id] = r.ufo]
                    /\ trace' = trace \o made
                                \o <<Event("newGlyph", item.layer_id, item.layer_name,
                                           item.glyph_name)>>
                    /\ pc' = IF r.raised THEN "aborted" ELSE pc
    /\ supp_i' = supp_i + 1
    /\ UNCHANGED <<font, heap, master_id_order, glyph_order, sorted_glyphset,
                   kerning_groups, supplementary_layer_data, master_i, glyph_i,
                   layer_j, post_done, kern_done, returned, notUfos>>

\* lines 141-145: one iteration of `for ufo in ufos.values()`, in the
\* dict's order, whatever it is
PostPass ==
    /\ pc = "passes"
    /\ glyph_i > Len(font.glyphs)
    /\ supp_i > Len(supplementary_layer_data)
    /\ \E master_id \in DOMAIN ufos \ post_done :
          /\ ufos' = [ufos EXCEPT
                        ![master_id].lib.glyphOrder = <<glyph_order>>,
                        ![master_id].groups = AddGroupsToUfo(@, kerning_groups)]
          /\ trace' = trace \o PostEvents(master_id)
          /\ post_done' = post_done \cup {master_id}
    /\ UNCHANGED <<font, heap, master_id_order, glyph_order, sorted_glyphset,
                   kerning_groups, supplementary_layer_data, master_i, glyph_i,
                   layer_j, supp_i, kern_done, returned, pc, notUfos>>

\* lines 147-148: one iteration of `for master_id, kerning in
\* font.kerning.items()`, in the dict's order, whatever it is
LoadMasterKerning ==
    /\ pc = "passes"
    /\ glyph_i > Len(font.glyphs)
    /\ supp_i > Len(supplementary_layer_data)
    /\ post_done = DOMAIN ufos
    /\ \E master_id \in DOMAIN font.kerning \ kern_done :
          /\ IF master_id \notin DOMAIN ufos
             THEN pc' = "aborted" /\ UNCHANGED <<ufos, trace>>
             ELSE /\ ufos' = [ufos EXCEPT ![master_id].kerning =
                                LoadKerning(KerningNames(ufos[master_id].groups),
                                            font.kerning[master_id]).kerning]
                  /\ trace' = Append(trace, Event("kerning", master_id, None_, None_))
                  /\ pc' = pc
          /\ kern_done' = kern_done \cup {master_id}
    /\ UNCHANGED <<font, heap, master_id_order, glyph_order, sorted_glyphset,
                   kerning_groups, supplementary_layer_data, master_i, glyph_i,
                   layer_j, supp_i, post_done, returned, notUfos>>

\* lines 150-168: to_ufos returns the list of target fonts
ReturnResult ==
    /\ pc = "passes"
    /\ glyph_i > Len(font.glyphs)
    /\ supp_i > Len(supplementary_layer_data)
    /\ post_done = DOMAIN ufos
    /\ kern_done = DOMAIN font.kerning
    /\ returned' = <<Result(ufos, master_id_order)>>
    /\ pc' = "done"
    /\ UNCHANGED <<font, heap, ufos, master_id_order, glyph_order, sorted_glyphset,
                   kerning_groups, supplementary_layer_data, master_i, glyph_i,
                   layer_j, supp_i, post_done, kern_done, trace, notUfos>>

Next ==
    \/ GenerateBaseFont \/ ReadGlyphOrder \/ BeginGlyph \/ DispatchLayer
    \/ SupplementaryLayer \/ PostPass \/ LoadMasterKerning \/ ReturnResult

Spec == InitUfos /\ [][Next]_vars

\* C1: to_ufos returns only by its return statement, and what it returns is
\* one target font for each master, in the masters' order: the i-th font is
\* the font built for the i-th master and its fontMasterID is that master's
\* id.
C1_OneFontPerMasterInOrder ==
    /\ returned # <<>> => pc = "done"
    /\ pc = "done" =>
          /\ returned # <<>>
          /\ Len(returned[1]) = Len(font.masters)
          /\ Len(font.masters) >= 1
          /\ \A i \in 1..Len(font.masters) :
                /\ returned[1][i].lib.fontMasterID = font.masters[i].id
                /\ returned[1][i] = ufos[font.masters[i].id]

\* A font with the masters m2, m1, three glyphs and kerning has been
\* converted: the fonts of m2 and m1 are returned in this order
C1_Witness ==
    /\ pc = "done"
    /\ font.masters = <<[id |-> "m2"], [id |-> "m1"]>>
    /\ Len(font.glyphs) = 3
    /\ font.kerning # <<>>
    /\ Len(returned[1]) = 2
    /\ returned[1][1].lib.fontMasterID = "m2"
    /\ returned[1][2].lib.fontMasterID = "m1"

\* C2: when to_ufos has returned, the public.glyphOrder of every font
\* returned is the list of the glyphOrder custom parameter as it was passed
\* in (nothing if there is none) followed by the names of the source glyphs
\* that are not in it, in the source's order.
C2_GlyphOrder ==
    pc = "done" =>
        LET override == IF font.glyphOrder = <<>> THEN <<>> ELSE font.glyphOrder[1]
            names == [i \in 1..Len(font.glyphs) |-> font.glyphs[i].name]
            NotListed(name) == name \notin Range(override)
            expected == override \o SelectSeq(names, NotListed)
        IN  \A i \in 1..Len(returned[1]) :
                /\ returned[1][i].lib.glyphOrder # <<>>
                /\ heap[returned[1][i].lib.glyphOrder[1]] = expected

\* The override [b, a] and the glyphs a, b, c have given the order b, a, c
\* in both fonts returned
C2_Witness ==
    /\ pc = "done"
    /\ font.glyphOrder = << <<"b", "a">> >>
    /\ Len(font.glyphs) = 3
    /\ font.glyphs[1].name = "a" /\ font.glyphs[2].name = "b"
    /\ font.glyphs[3].name = "c"
    /\ Len(returned[1]) = 2
    /\ \A i \in 1..2 : heap[returned[1][i].lib.glyphOrder[1]] = <<"b", "a", "c">>

\* C7: every glyph of a target font was loaded from a layer of the source
\* glyph of its name: the master's own layer for the default layer, a named
\* layer associated with the master for a layer of that name.  If no open
\* path with nodes of that layer starts with a node that is not a line
\* node, the glyph has one finished contour for each path, and the contour
\* of an open path with nodes is the first node as a move point followed by
\* the other nodes in order.  If one does, the conversion has aborted.  An
\* aborted conversion has returned nothing.
C7_OpenPathsMoveOrAbort ==
    /\ pc = "aborted" => returned = <<>>
    /\ \A m \in DOMAIN ufos : \A lname \in DOMAIN ufos[m].layers :
       \A g \in DOMAIN ufos[m].layers[lname] :
       \A i \in 1..Len(font.glyphs) : \A j \in 1..Len(font.glyphs[i].layers) :
          LET L == font.glyphs[i].layers[j]
              source == /\ font.glyphs[i].name = g
                        /\ L.associatedMasterId = m
                        /\ IF lname = DefaultLayer THEN L.layerId = m
                           ELSE L.layerId # m /\ L.name = lname
              cs == Contours(ufos[m].layers[lname][g].pen)
              Open(k) == ~L.paths[k].closed /\ L.paths[k].nodes # <<>>
              bad == \E k \in 1..Len(L.paths) :
                        Open(k) /\ L.paths[k].nodes[1].type # "line"
          IN  source =>
                IF bad THEN pc = "aborted" /\ returned = <<>>
                ELSE /\ Len(cs) = Len(L.paths)
                     /\ \A k \in 1..Len(L.paths) :
                          Open(k) =>
                            LET nodes == L.paths[k].nodes
                            IN  /\ cs[k].ended
                                /\ Len(cs[k].points) = Len(nodes)
                                /\ cs[k].points[1].pt = nodes[1].position
                                /\ cs[k].points[1].segmentType = "move"
                                /\ \A n \in 2..Len(nodes) :
                                      /\ cs[k].points[n].pt = nodes[n].position
                                      /\ cs[k].points[n].smooth = nodes[n].smooth
                                      /\ cs[k].points[n].segmentType =
                                            IF nodes[n].type \in {"line", "curve", "qcurve"}
                                            THEN nodes[n].type ELSE None_

\* The glyph a, an open path of two line nodes, has been drawn in the font
\* of m1 as a move point and a line point; then the master layer of the
\* glyph b, whose open path starts with an off-curve node, has aborted the
\* conversion
C7_Witness ==
    /\ pc = "aborted"
    /\ returned = <<>>
    /\ Len(font.glyphs) >= 2
    /\ font.glyphs[1].name = "a" /\ font.glyphs[2].name = "b"
    /\ font.masters = <<[id |-> "m1"]>>
    /\ font.glyphs[1].layers[1].paths = <<OpenLinePath>>
    /\ font.glyphs[2].layers[1].paths = <<ClosedPath, OpenOffcurvePath>>
    /\ DOMAIN ufos["m1"].layers[DefaultLayer] = {"a", "b"}
    /\ ufos["m1"].layers[DefaultLayer]["a"].pen =
          <<BeginPath, AddPoint(<<1, 0>>, "move", FALSE),
            AddPoint(<<2, 0>>, "line", FALSE), EndPath>>
    /\ Last(ufos["m1"].layers[DefaultLayer]["b"].pen) = BeginPath

\* ------------------------------------------------------------------------
\* to_ufos, the instance data (ufo.py 65-79 and 152-168) with
\* filter_instances_by_family (677-688), called with include_instances
\* set.  Nothing between line 79 and line 152 reads or writes what these
\* lines use.
\* ------------------------------------------------------------------------
MaxInstances == 3

\* The customParameters of an instance, as (name, value) pairs: the
\* familyName parameter stands at most once
InstanceParams ==
    {<<>>,
     << <<"familyName", "Other">> >>,
     << <<"familyName", "Fam">> >>,
     << <<"weightClass", "Bold">>, <<"familyName", "Other">> >>,
     << <<"familyName", "Third">>, <<"weightClass", "Bold">> >>}

\* The instances of a source font, each named by its place in the source
SourceInstances ==
    UNION {{[i \in 1..n |-> [name |-> i, customParameters |-> params[i]]] :
                params \in [1..n -> InstanceParams]} : n \in 0..MaxInstances}

\* lines 681-685: the value of the last familyName parameter, None if
\* there is none
FamilyNameOf(instance) ==
    LET ps == instance.customParameters
        F[i \in 0..Len(ps)] ==
            IF i = 0 THEN None_
            ELSE IF ps[i][1] = "familyName" THEN ps[i][2] ELSE F[i - 1]
    IN  F[Len(ps)]

\* A filter that looks for the family name requested, whatever it is
InstanceFamilyName_AsRequested(requested, source_family_name) == requested

\* lines 74-79
InstanceFamilyName(requested, source_family_name) ==
    IF requested = source_family_name THEN None_ ELSE requested

InitInstances ==
    /\ DrawIdle /\ GlyphIdle /\ GdefIdle /\ FilterIdle /\ KernIdle /\ UfosIdle
    /\ StyleIdle
    /\ i_font \in [familyName : {"Fam"}, instances : SourceInstances]
    /\ i_args \in [family_name : {None_, "Fam", "Other"}]
    /\ family_name = i_args.family_name
    /\ do_filter_instances_by_family = FALSE
    /\ instance_family_name = None_
    /\ instances = <<>>
    /\ i_i = 1
    /\ instance_data = <<>>
    /\ i_pc = "call"

\* lines 65-79
ResolveFamilyName ==
    /\ i_pc = "call"
    /\ IF family_name = None_
       THEN /\ family_name' = i_font.familyName
            /\ do_filter_instances_by_family' = FALSE
            /\ UNCHANGED instance_family_name
       ELSE /\ do_filter_instances_by_family' = TRUE
            /\ instance_family_name' =
                  InstanceFamilyName(family_name, i_font.familyName)
            /\ UNCHANGED family_name
    /\ i_pc' = "instances"
    /\ UNCHANGED <<i_font, i_args, instances, i_i, instance_data, notInst>>

\* lines 154-155 and 680-688: list() takes the next instance from the
\* generator
FilterInstance ==
    /\ i_pc = "instances"
    /\ do_filter_instances_by_family
    /\ i_i <= Len(i_font.instances)
    /\ LET instance == i_font.instances[i_i]
       IN  instances' = IF FamilyNameOf(instance) = instance_family_name
                        THEN Append(instances, instance)
                        ELSE instances
    /\ i_i' = i_i + 1
    /\ UNCHANGED <<i_font, i_args, family_name, do_filter_instances_by_family,
                   instance_family_name, instance_data, i_pc, notInst>>

\* lines 152-168: the instance data are returned with the target fonts
ReturnInstanceData ==
    /\ i_pc = "instances"
    /\ ~do_filter_instances_by_family \/ i_i > Len(i_font.instances)
    /\ LET kept == IF do_filter_instances_by_family THEN instances
                   ELSE i_font.instances
       IN  /\ instances' = kept
           /\ instance_data' = [data |-> kept]
    /\ i_pc' = "returned"
    /\ UNCHANGED <<i_font, i_args, family_name, do_filter_instances_by_family,
                   instance_family_name, i_i, notInst>>

NextInstances == ResolveFamilyName \/ FilterInstance \/ ReturnInstanceData

SpecInstances == InitInstances /\ [][NextInstances]_vars

\* C11: the instance data returned hold, in the source's order, every
\* instance if no family name was requested, the instances without a
\* familyName parameter if the source's family name was requested, and the
\* instances whose familyName parameter is the name requested otherwise.
C11_InstanceFilter ==
    i_pc = "returned" =>
        LET requested == i_args.family_name
            Param(instance) ==
                {instance.customParameters[k][2] :
                    k \in {n \in 1..Len(instance.customParameters) :
                              instance.customParameters[n][1] = "familyName"}}
            NoParam(instance) == Param(instance) = {}
            Requested(instance) == Param(instance) = {requested}
        IN  instance_data.data =
                IF requested = None_ THEN i_font.instances
                ELSE IF requested = i_font.familyName
                     THEN SelectSeq(i_font.instances, NoParam)
                     ELSE SelectSeq(i_font.instances, Requested)

\* Of three instances of the families Other, none and Other the first and
\* the third have been returned for the family Other
C11_Witness ==
    /\ i_pc = "returned"
    /\ i_args.family_name = "Other"
    /\ Len(i_font.instances) = 3
    /\ FamilyNameOf(i_font.instances[1]) = "Other"
    /\ FamilyNameOf(i_font.instances[2]) = None_
    /\ FamilyNameOf(i_font.instances[3]) = "Other"
    /\ Len(instance_data.data) = 2
    /\ instance_data.data[1].name = 1
    /\ instance_data.data[2].name = 3

\* ------------------------------------------------------------------------
\* build_style_name (ufo.py 579-586), _get_linked_style (281-295) and
\* build_stylemap_names (298-324).  A string is the sequence of its atoms:
\* a word, or the space " ".  An argument that may be None is <<>> for
\* None and <<string>> otherwise.
\* ------------------------------------------------------------------------
MaxStyleTokens == 3

\* str.split(): the runs of atoms between the spaces
SplitWhitespace(str) ==
    LET F[i \in 0..Len(str)] ==
            IF i = 0 THEN [done |-> <<>>, cur |-> <<>>]
            ELSE LET prev == F[i - 1]
                 IN  IF str[i] = " "
                     THEN IF prev.cur = <<>> THEN prev
                          ELSE [done |-> Append(prev.done, prev.cur), cur |-> <<>>]
                     ELSE [done |-> prev.done, cur |-> Append(prev.cur, str[i])]
        last == F[Len(str)]
    IN  IF last.cur = <<>> THEN last.done ELSE Append(last.done, last.cur)

\* The strings of line 585 in another order
StyleTokens_WidthFirst(width, weight, custom, is_italic) ==
    <<width, weight, custom, IF is_italic THEN <<"Italic">> ELSE <<>> >>

\* line 585: the strings joined, in their order
StyleTokens(width, weight, custom, is_italic) ==
    <<custom, width, weight, IF is_italic THEN <<"Italic">> ELSE <<>> >>

\* lines 584-586
BuildStyleName(width, weight, custom, is_italic) ==
    LET NonEmpty(str) == str # <<>>
        joined == Join(SelectSeq(StyleTokens(width, weight, custom, is_italic),
                                 NonEmpty), " ")
    IN  IF joined # <<>> THEN joined ELSE <<"Regular">>

\* A scan from the start of the style name: the first occurrences go
GetLinkedStyle_FromStart(style_name, is_bold, is_italic) ==
    LET parts == SplitWhitespace(style_name)
        F[i \in 0..Len(parts)] ==
            IF i = 0
            THEN [linked |-> <<>>, regular |-> ~(is_bold \/ is_italic),
                  bold |-> is_bold, italic |-> is_italic]
            ELSE LET prev == F[i - 1]
                     part == parts[i]
                 IN  IF part = <<"Regular">> /\ prev.regular
                     THEN [prev EXCEPT !.regular = FALSE]
                     ELSE IF part = <<"Bold">> /\ prev.bold
                     THEN [prev EXCEPT !.bold = FALSE]
                     ELSE IF part = <<"Italic">> /\ prev.italic
                     THEN [prev EXCEPT !.italic = FALSE]
                     ELSE [prev EXCEPT !.linked = Append(@, part)]
    IN  Join(F[Len(parts)].linked, " ")

\* _get_linked_style, lines 284-295: the parts are scanned from the last
GetLinkedStyle(style_name, is_bold, is_italic) ==
    LET parts == SplitWhitespace(style_name)
        n == Len(parts)
        F[i \in 0..n] ==
            IF i = 0
            THEN [linked |-> <<>>, regular |-> ~(is_bold \/ is_italic),
                  bold |-> is_bold, italic |-> is_italic]
            ELSE LET prev == F[i - 1]
                     part == parts[n + 1 - i]
                 IN  IF part = <<"Regular">> /\ prev.regular
                     THEN [prev EXCEPT !.regular = FALSE]
                     ELSE IF part = <<"Bold">> /\ prev.bold
                     THEN [prev EXCEPT !.bold = FALSE]
                     ELSE IF part = <<"Italic">> /\ prev.italic
                     THEN [prev EXCEPT !.italic = FALSE]
                     ELSE [prev EXCEPT !.linked = <<part>> \o @]
    IN  Join(F[n].linked, " ")

\* lines 315-317
StyleMapStyleName(is_bold, is_italic) ==
    LET NonEmpty(str) == str # <<>>
        joined == Join(SelectSeq(<<IF is_bold THEN <<"bold">> ELSE <<>>,
                                   IF is_italic THEN <<"italic">> ELSE <<>> >>,
                                 NonEmpty), " ")
    IN  IF joined # <<>> THEN joined ELSE <<"regular">>

\* lines 315-324
BuildStylemapNames(family, style_name, is_bold, is_italic, linked_style) ==
    LET linked == IF linked_style = <<>> \/ linked_style[1] = <<>>
                     \/ linked_style[1] = <<"Regular">>
                  THEN GetLinkedStyle(style_name, is_bold, is_italic)
                  ELSE linked_style[1]
    IN  [styleMapFamilyName |-> IF linked # <<>> THEN family \o <<" ">> \o linked
                                ELSE family,
         styleMapStyleName |-> StyleMapStyleName(is_bold, is_italic)]

\* The words a style name is made of; Semi Bold written as one word is not
\* the word Bold
StyleWords ==
    {<<"Bold">>, <<"Italic">>, <<"Regular">>, <<"Condensed">>, <<"Semi", "Bold">>}

\* The style names: words with one space between them, or with a space
\* before the first and two spaces between them
StyleNames ==
    UNION {{Join(words, " "),
            <<" ">> \o Join([i \in 1..Len(words) |-> words[i] \o <<" ">>], " ")} :
                words \in SeqsUpTo(StyleWords, MaxStyleTokens)}

StyleNameCalls ==
    [fn : {"build_style_name"},
     width : {<<>>, <<"Condensed">>},
     weight : {<<>>, <<"Bold">>, <<"Regular">>, <<"Semi", " ", "Bold">>},
     custom : {<<>>, <<"Display">>},
     is_italic : BOOLEAN]

StylemapNamesCalls ==
    [fn : {"build_stylemap_names"},
     family_name : {<<"Fam">>},
     style_name : StyleNames,
     is_bold : BOOLEAN,
     is_italic : BOOLEAN,
     linked_style : {<<>>, << <<>> >>, << <<"Regular">> >>, << <<"Light">> >>}]

InitStyle ==
    /\ DrawIdle /\ GlyphIdle /\ GdefIdle /\ FilterIdle /\ KernIdle /\ UfosIdle
    /\ InstIdle
    /\ s_call \in StyleNameCalls \cup StylemapNamesCalls
    /\ s_value = <<>>
    /\ s_pc = "call"

\* build_style_name(width, weight, custom, is_italic)
BuildStyleNameCall ==
    /\ s_pc = "call"
    /\ s_call.fn = "build_style_name"
    /\ s_value' = BuildStyleName(s_call.width, s_call.weight, s_call.custom,
                                 s_call.is_italic)
    /\ s_pc' = "returned"
    /\ UNCHANGED <<s_call, notStyle>>

\* build_stylemap_names(family_name, style_name, is_bold, is_italic,
\* linked_style)
BuildStylemapNamesCall ==
    /\ s_pc = "call"
    /\ s_call.fn = "build_stylemap_names"
    /\ s_value' = BuildStylemapNames(s_call.family_name, s_call.style_name,
                                     s_call.is_bold, s_call.is_italic,
                                     s_call.linked_style)
    /\ s_pc' = "returned"
    /\ UNCHANGED <<s_call, notStyle>>

NextStyle == BuildStyleNameCall \/ BuildStylemapNamesCall

SpecStyle == InitStyle /\ [][NextStyle]_vars

\* build_style_name has returned
StyleNameReturned == s_pc = "returned" /\ s_call.fn = "build_style_name"

\* build_stylemap_names has returned
StylemapNamesReturned == s_pc = "returned" /\ s_call.fn = "build_stylemap_names"

\* C12 as stated: Regular is returned exactly when custom, width and weight
\* are empty and is_italic is false.
C12_AsStated ==
    StyleNameReturned =>
        (s_value = <<"Regular">>
            <=> /\ s_call.custom = <<>> /\ s_call.width = <<>>
                /\ s_call.weight = <<>> /\ ~s_call.is_italic)

\* C12: build_style_name returns the strings custom, width, weight and
\* Italic (if is_italic) that are not empty, in this order, with a space
\* between them, and Regular if there is none; ('', '', '', False) gives
\* Regular and ('Condensed', 'Bold', '', True) gives Condensed Bold Italic.
C12_StyleName ==
    StyleNameReturned =>
        LET c == s_call.custom
            wd == s_call.width
            wg == s_call.weight
            it == IF s_call.is_italic THEN <<"Italic">> ELSE <<>>
            Sp(str, rest) == IF str = <<>> THEN rest
                             ELSE IF rest = <<>> THEN str
                             ELSE str \o <<" ">> \o rest
            joined == Sp(c, Sp(wd, Sp(wg, it)))
        IN  /\ s_value = IF joined = <<>> THEN <<"Regular">> ELSE joined
            /\ (c = <<>> /\ wd = <<>> /\ wg = <<>> /\ ~s_call.is_italic)
                  => s_value = <<"Regular">>
            /\ (c = <<>> /\ wd = <<"Condensed">> /\ wg = <<"Bold">>
                  /\ s_call.is_italic)
                  => s_value = <<"Condensed", " ", "Bold", " ", "Italic">>

\* build_style_name('Condensed', 'Bold', 'Display', True) has returned
\* Display Condensed Bold Italic
C12_Witness ==
    /\ StyleNameReturned
    /\ s_call.width = <<"Condensed">> /\ s_call.weight = <<"Bold">>
    /\ s_call.custom = <<"Display">> /\ s_call.is_italic
    /\ s_value = <<"Display", " ", "Condensed", " ", "Bold", " ", "Italic">>

\* C13: the style-map style is bold, italic, bold italic or regular by the
\* two flags, and the flags read back from it give it again.  With
\* linked_style unset, empty or Regular the linked style is the words of
\* style_name without the last Bold if is_bold, the last Italic if
\* is_italic, the last Regular if neither, joined by a space; else it is
\* linked_style.  The style-map family name is the family name, a space and
\* the linked style, or the family name alone if the linked style is empty.
C13_StylemapNames ==
    StylemapNamesReturned =>
        LET style == s_value.styleMapStyleName
            words == SplitWhitespace(s_call.style_name)
            LastOf(word) ==
                {i \in 1..Len(words) :
                    /\ words[i] = <<word>>
                    /\ \A j \in (i + 1)..Len(words) : words[j] # <<word>>}
            removed ==
                (IF s_call.is_bold THEN LastOf("Bold") ELSE {})
                \cup (IF s_call.is_italic THEN LastOf("Italic") ELSE {})
                \cup (IF ~s_call.is_bold /\ ~s_call.is_italic
                      THEN LastOf("Regular") ELSE {})
            Kept[i \in 0..Len(words)] ==
                IF i = 0 THEN <<>>
                ELSE IF i \in removed THEN Kept[i - 1]
                ELSE IF Kept[i - 1] = <<>> THEN words[i]
                ELSE Kept[i - 1] \o <<" ">> \o words[i]
            derived == s_call.linked_style = <<>>
                       \/ s_call.linked_style[1] \in {<<>>, <<"Regular">>}
            linked == IF derived THEN Kept[Len(words)] ELSE s_call.linked_style[1]
        IN  /\ style = CASE s_call.is_bold /\ s_call.is_italic
                                -> <<"bold", " ", "italic">>
                         [] s_call.is_bold /\ ~s_call.is_italic -> <<"bold">>
                         [] ~s_call.is_bold /\ s_call.is_italic -> <<"italic">>
                         [] OTHER -> <<"regular">>
            /\ StyleMapStyleName("bold" \in Range(style), "italic" \in Range(style))
                  = style
            /\ s_value.styleMapFamilyName =
                  IF linked = <<>> THEN s_call.family_name
                  ELSE s_call.family_name \o <<" ">> \o linked

\* The bold style Bold Condensed Bold of the family Fam is linked to the
\* style Bold Condensed
C13_Witness ==
    /\ StylemapNamesReturned
    /\ s_call.style_name = <<"Bold", " ", "Condensed", " ", "Bold">>
    /\ s_call.is_bold /\ ~s_call.is_italic
    /\ s_call.linked_style = <<>>
    /\ s_value.styleMapStyleName = <<"bold">>
    /\ s_value.styleMapFamilyName = <<"Fam", " ", "Bold", " ", "Condensed">>

\* C14: the list that is the value of the source font's glyphOrder custom
\* parameter is throughout the conversion what it was when to_ufos was
\* called.
C14_GlyphOrderParamUnchanged ==
    font.glyphOrder # <<>> => heap["param"] = font.glyphOrder[1]

\* The calls of the two deferred passes: a glyph or a layer made in a layer
\* other than the default one, and the four steps of the post pass
Deferred(event) ==
    \/ event.op = "newLayer"
    \/ event.op = "newGlyph" /\ event.layer # DefaultLayer
    \/ event.op \in {"glyphOrder", "anchors", "features", "groups"}

\* C15: once a call of a deferred pass has been made the loop over the
\* source glyphs is over, and no glyph is made in a default layer after
\* such a call; a font's features are assembled after its glyph order has
\* been stored, and the list stored is the final one; a master's kerning is
\* loaded after the groups have been stored in every target font.
C15_PassOrder ==
    \A e \in 1..Len(trace) :
        /\ Deferred(trace[e]) =>
              /\ glyph_i > Len(font.glyphs)
              /\ \A d \in (e + 1)..Len(trace) :
                    ~(trace[d].op = "newGlyph" /\ trace[d].layer = DefaultLayer)
        /\ trace[e].op \in {"glyphOrder", "anchors", "features", "groups", "kerning"} =>
              \A d \in (e + 1)..Len(trace) : trace[d].op # "newGlyph"
        /\ trace[e].op = "features" =>
              /\ \E d \in 1..(e - 1) :
                    trace[d].op = "glyphOrder" /\ trace[d].font = trace[e].font
              /\ ufos[trace[e].font].lib.glyphOrder = <<glyph_order>>
        /\ trace[e].op = "kerning" =>
              \A i \in 1..Len(font.masters) :
                 /\ \E d \in 1..(e - 1) :
                       trace[d].op = "groups" /\ trace[d].font = font.masters[i].id
                 /\ ufos[font.masters[i].id].groups = kerning_groups

\* A font with two masters, a glyph with a background layer and kerning has
\* been converted: the background glyph was made after the two master
\* glyphs, then came the two post passes, then the kerning of both masters
C15_Witness ==
    /\ pc = "done"
    /\ Len(font.masters) = 2
    /\ Len(font.glyphs) = 1
    /\ Len(trace) = 14
    /\ trace[1].op = "newGlyph" /\ trace[1].layer = DefaultLayer
    /\ trace[2].op = "newGlyph" /\ trace[2].layer = DefaultLayer
    /\ trace[3].op = "newLayer" /\ trace[3].layer = "bg"
    /\ trace[4].op = "newGlyph" /\ trace[4].layer = "bg"
    /\ trace[5].op = "glyphOrder" /\ trace[7].op = "features"
    /\ trace[8].op = "groups" /\ trace[9].op = "glyphOrder"
    /\ trace[13].op = "kerning" /\ trace[14].op = "kerning"

\* The places of the source layers whose glyph belongs in the layer lname
\* of the target font of the master m under the name g: the master's own
\* layer for the default layer, the named layers associated with the
\* master for a layer of their name
LayersFor(m, lname, g) ==
    {p \in UNION {{<<i, j>> : j \in 1..Len(font.glyphs[i].layers)} :
                      i \in 1..Len(font.glyphs)} :
        /\ font.glyphs[p[1]].name = g
        /\ LET L == font.glyphs[p[1]].layers[p[2]]
           IN  IF L.associatedMasterId = L.layerId
               THEN m = L.layerId /\ lname = DefaultLayer
               ELSE m = L.associatedMasterId /\ L.name # None_ /\ lname = L.name}

\* The calls that made the glyph g in the layer lname of the font of m
Made(m, lname, g) ==
    {e \in 1..Len(trace) : trace[e] = Event("newGlyph", m, lname, g)}

\* C16: at any time the glyphs made in a layer of a target font under a
\* name are no more than the source layers that belong there, and when
\* to_ufos has returned they are as many: one glyph in the default layer
\* of its master for a master's own layer, one glyph in the layer of its
\* name (made once) of the associated master for another layer with a
\* name, none anywhere for another layer without a name.
C16_LayerDispatch ==
    \A m \in DOMAIN ufos :
    \A lname \in {DefaultLayer, "Regular", "bg", None_} :
    \A g \in {font.glyphs[i].name : i \in 1..Len(font.glyphs)} :
        LET expected == Cardinality(LayersFor(m, lname, g))
            layers == {e \in 1..Len(trace) :
                          trace[e] = Event("newLayer", m, lname, None_)}
        IN  /\ Cardinality(Made(m, lname, g)) <= expected
            /\ Cardinality(layers) <= 1
            /\ Made(m, lname, g) # {} =>
                  /\ lname \in DOMAIN ufos[m].layers
                  /\ g \in DOMAIN ufos[m].layers[lname]
                  /\ lname # DefaultLayer => layers # {}
            /\ pc = "done" =>
                  /\ Cardinality(Made(m, lname, g)) = expected
                  /\ expected = 0 =>
                        \/ lname \notin DOMAIN ufos[m].layers
                        \/ g \notin DOMAIN ufos[m].layers[lname]

\* The glyph a with a background layer bg for the master m1 and the glyph
\* b with an unnamed layer have been converted for the masters m1 and m2:
\* both fonts have a and b in the default layer, a is in the layer bg of
\* m1 and the unnamed layer has made nothing
C16_Witness ==
    /\ pc = "done"
    /\ font.masters = <<[id |-> "m1"], [id |-> "m2"]>>
    /\ Len(font.glyphs) = 2
    /\ font.glyphs[1].name = "a" /\ Len(font.glyphs[1].layers) = 3
    /\ font.glyphs[1].layers[3].name = "bg"
    /\ font.glyphs[2].name = "b" /\ font.glyphs[2].layers[1].name = None_
    /\ DOMAIN ufos["m1"].layers = {DefaultLayer, "bg"}
    /\ DOMAIN ufos["m2"].layers = {DefaultLayer}
    /\ DOMAIN ufos["m1"].layers[DefaultLayer] = {"a", "b"}
    /\ DOMAIN ufos["m2"].layers[DefaultLayer] = {"a", "b"}
    /\ DOMAIN ufos["m1"].layers["bg"] = {"a"}
    /\ Cardinality({e \in 1..Len(trace) : trace[e].op = "newGlyph"}) = 5

\* C17: a step of the conflict pass takes the last mixed rule not yet
\* checked, of class c, glyph g and value v.  A member of c is dropped,
\* with a warning, if and only if its literal pair with g was seen from a
\* rule of another value and is not a key of the pair table; any other
\* member is kept and the rule is recorded as seen for its literal pair.
\* If a member was dropped the class-level pair leaves the pair table and
\* the literal pair of each member kept enters it with v; if none was, the
\* pair table is left as it is.
C17_ConflictStep ==
    [][(k_pc = "conflicts" /\ k_j >= 1 /\ k_j' # k_j) =>
        LET p == class_glyph_pairs[k_j]
            class_pair == IF p[3] THEN <<p[1], p[2]>> ELSE <<p[2], p[1]>>
            v == k_kerning[class_pair]
            members == k_groups[p[1]]
            Lit(member) == IF p[3] THEN <<member, p[2]>> ELSE <<p[2], member>>
            Dropped(member) ==
                /\ Lit(member) \in DOMAIN seen
                /\ seen[Lit(member)][3] # v
                /\ Lit(member) \notin DOMAIN k_kerning
            dropped == SelectSeq(members, Dropped)
            kept == {members[i] : i \in {n \in 1..Len(members) : ~Dropped(members[n])}}
        IN  /\ k_j' = k_j - 1
            /\ Len(k_log') = Len(k_log) + Len(dropped)
            /\ SubSeq(k_log', 1, Len(k_log)) = k_log
            /\ \A i \in 1..Len(dropped) :
                  /\ k_log'[Len(k_log) + i].kind = "conflict"
                  /\ k_log'[Len(k_log) + i].pair = Lit(dropped[i])
            /\ DOMAIN seen' = DOMAIN seen \cup {Lit(member) : member \in kept}
            /\ \A key \in DOMAIN seen' :
                  seen'[key] = IF key \in {Lit(member) : member \in kept}
                               THEN <<class_pair[1], class_pair[2], v>>
                               ELSE seen[key]
            /\ IF dropped = <<>>
               THEN k_kerning' = k_kerning
               ELSE /\ DOMAIN k_kerning' =
                          (DOMAIN k_kerning \ {class_pair})
                          \cup {Lit(member) : member \in kept}
                    /\ \A key \in DOMAIN k_kerning' :
                          k_kerning'[key] = IF key \in {Lit(member) : member \in kept}
                                            THEN v ELSE k_kerning[key]]_vars

\* With the groups A = [a, aa] and X = [x], the rules (A, x) = 10 and
\* (aa, X) = 20 have been loaded and checked: aa has been dropped from the
\* first rule, whose class-level pair has made way for (a, x) = 10
C17_Witness ==
    /\ k_pc = "done"
    /\ k_groups = GroupsOf(<< <<"a">>, <<"aa">> >>, << <<"x">> >>)
    /\ Len(class_glyph_pairs) = 2
    /\ Len(k_log) = 1
    /\ k_log[1].kind = "conflict"
    /\ k_log[1].pair = << <<"aa">>, <<"x">> >>
    /\ DOMAIN k_kerning = {<< <<"a">>, <<"x">> >>,
                           << <<"aa">>, <<"public.kern2.", "X">> >>}
    /\ k_kerning[<< <<"a">>, <<"x">> >>] = 10
    /\ k_kerning[<< <<"aa">>, <<"public.kern2.", "X">> >>] = 20

\* C18: no target font has a group before the loop over the source glyphs
\* is over; when to_ufos has returned every target font has the groups
\* public.kern1.<G>, for each non-empty rightKerningGroup G of a glyph, and
\* public.kern2.<G>, for each non-empty leftKerningGroup G, and no other,
\* each the names of the glyphs of that tag in the source's order, so that
\* no glyph is in two groups of a side or twice in a group.
C18_KerningGroups ==
    LET names == [i \in 1..Len(font.glyphs) |-> font.glyphs[i].name]
        Tag(i, side) == IF side = "public.kern1."
                        THEN font.glyphs[i].rightKerningGroup
                        ELSE font.glyphs[i].leftKerningGroup
        Tagged(i, side) == Tag(i, side) # None_ /\ Tag(i, side) # ""
        keys == {<<side, Tag(i, side)>> :
                    side \in {"public.kern1.", "public.kern2."},
                    i \in {n \in 1..Len(font.glyphs) :
                              Tagged(n, "public.kern1.") \/ Tagged(n, "public.kern2.")}}
        expected == {k \in keys : \E i \in 1..Len(font.glyphs) :
                                      Tagged(i, k[1]) /\ Tag(i, k[1]) = k[2]}
        Members(k) ==
            LET F[i \in 0..Len(font.glyphs)] ==
                    IF i = 0 THEN <<>>
                    ELSE IF Tagged(i, k[1]) /\ Tag(i, k[1]) = k[2]
                         THEN Append(F[i - 1], names[i])
                         ELSE F[i - 1]
            IN  F[Len(font.glyphs)]
    IN  \A m \in DOMAIN ufos :
           /\ ufos[m].groups # <<>> => glyph_i > Len(font.glyphs)
           /\ pc = "done" =>
                 /\ DOMAIN ufos[m].groups = expected
                 /\ \A k \in expected : ufos[m].groups[k] = Members(k)
                 /\ \A k1, k2 \in expected : \A n \in Range(names) :
                       (k1[1] = k2[1] /\ n \in Range(ufos[m].groups[k1])
                          /\ n \in Range(ufos[m].groups[k2])) => k1 = k2
                 /\ \A k \in expected : \A i, j \in 1..Len(ufos[m].groups[k]) :
                       ufos[m].groups[k][i] = ufos[m].groups[k][j] => i = j

\* The glyphs c (right group A), a (right group empty, left group X) and b
\* (right group A, left group X) have been converted for two masters: both
\* fonts have public.kern1.A = [c, b] and public.kern2.X = [a, b]
C18_Witness ==
    /\ pc = "done"
    /\ Len(font.masters) = 2
    /\ Len(font.glyphs) = 3
    /\ font.glyphs[1].name = "c" /\ font.glyphs[1].rightKerningGroup = "A"
    /\ font.glyphs[1].leftKerningGroup = None_
    /\ font.glyphs[2].name = "a" /\ font.glyphs[2].rightKerningGroup = ""
    /\ font.glyphs[3].name = "b" /\ font.glyphs[3].leftKerningGroup = "X"
    /\ \A m \in {"m1", "m2"} :
          ufos[m].groups = (<<"public.kern1.", "A">> :> <<"c", "b">>)
                           @@ (<<"public.kern2.", "X">> :> <<"a", "b">>)

\* C19: when load_kerning has returned, every group named by a key of the
\* pair table is a group of the font, and if the pair table has a rule
\* from a kern1 group with the glyph l to the glyph r and a rule of another
\* value from l to a kern2 group with r, it has the literal pair (l, r).
C19_MixedRulesUnambiguous ==
    k_pc = "done" =>
        /\ \A p \in DOMAIN k_kerning :
              /\ p[1][1] = "public.kern1." => p[1] \in DOMAIN k_groups
              /\ p[2][1] = "public.kern2." => p[2] \in DOMAIN k_groups
        /\ \A p1, p2 \in DOMAIN k_kerning :
              (/\ p1[1][1] = "public.kern1." /\ p1[2][1] # "public.kern2."
               /\ p2[1][1] # "public.kern1." /\ p2[2][1] = "public.kern2."
               /\ p1[1] \in DOMAIN k_groups /\ p2[2] \in DOMAIN k_groups
               /\ p2[1] \in Range(k_groups[p1[1]])
               /\ p1[2] \in Range(k_groups[p2[2]])
               /\ k_kerning[p1] # k_kerning[p2])
                  => <<p2[1], p1[2]>> \in DOMAIN k_kerning

\* load_kerning has returned with the rules (A, x) = 10 and (aa, X) = 20,
\* aa in A and x in X, and with the literal pair (aa, x)
C19_Witness ==
    /\ k_pc = "done"
    /\ k_groups = GroupsOf(<< <<"a">>, <<"aa">> >>, << <<"x">> >>)
    /\ DOMAIN k_kerning = {<< <<"public.kern1.", "A">>, <<"x">> >>,
                           << <<"aa">>, <<"public.kern2.", "X">> >>,
                           << <<"aa">>, <<"x">> >>}
    /\ k_kerning[<< <<"public.kern1.", "A">>, <<"x">> >>] = 10
    /\ k_kerning[<< <<"aa">>, <<"public.kern2.", "X">> >>] = 20

=============================================================================
